---- MODULE Spec2Model ----
(***************************************************************************)
(* serde_starlark: the Starlark writer (src/src/ser.rs), the FunctionCall, *)
(* Assignment and LineComment adapters (src/src/call.rs, assignment.rs,    *)
(* comment.rs) and the error kinds (src/src/error.rs).                     *)
(*                                                                         *)
(* Text is a sequence of Unicode code points.  A value describes itself by *)
(* calling the methods of the serializer it is handed; the model follows   *)
(* these calls one at a time.  `cur` is the serializer a value has been    *)
(* handed and has not called yet; `stack` holds the containers that are    *)
(* open, innermost last, each with the point (`pending`) at which its      *)
(* serialize_element / serialize_field / serialize_key / serialize_value   *)
(* is suspended inside value.serialize(..).                                *)
(***************************************************************************)
EXTENDS Integers, Sequences, FiniteSets, TLC

VARIABLES
    output,         \* WriteStarlark.output
    indent,         \* WriteStarlark.indent
    line_comment,   \* WriteStarlark.line_comment: None or Some(text)
    stack,          \* the open WriteSeq / WriteTuple / WriteTupleStruct / WriteMap / WriteStruct
    cur,            \* the serializer handed to the value that describes itself next
    result,         \* what to_string returned, once it has
    done,           \* history: the values that have been written so far, in order of completion
    nodes,          \* history: the number of values that were handed a serializer
    call            \* history: the method the last step called, on which serializer

vars == <<output, indent, line_comment, stack, cur, result, done, nodes, call>>

-----------------------------------------------------------------------------
(* Bounds of the model. *)

\* Values (scalars, containers, adapters) described in one to_string call.
MaxNodes == 3

-----------------------------------------------------------------------------
(* Text *)

None == <<>>
Some(x) == <<x>>

Ch ==
    [ nl |-> 10, space |-> 32, quote |-> 34, hash |-> 35, lparen |-> 40, rparen |-> 41,
      plus |-> 43, comma |-> 44, minus |-> 45, zero |-> 48, colon |-> 58, eq |-> 61,
      lbracket |-> 91, backslash |-> 92, rbracket |-> 93, lbrace |-> 123, rbrace |-> 125 ]

TrueText == <<84, 114, 117, 101>>              \* "True"
FalseText == <<70, 97, 108, 115, 101>>         \* "False"
NoneText == <<78, 111, 110, 101>>              \* "None"
CommentLead == <<32, 32, 35, 32>>              \* "  # "
CommaSpace == <<44, 32>>                       \* ", "
PlusJoin == <<32, 43, 32>>                     \* " + "
ColonSpace == <<58, 32>>                       \* ": "
EqSign == <<32, 61, 32>>                       \* " = "
StarKey == <<42, 107, 101, 121>>               \* "*key"
StarValue == <<42, 118, 97, 108, 117, 101>>    \* "*value"

RECURSIVE Spaces(_)
Spaces(n) == IF n <= 0 THEN <<>> ELSE <<32>> \o Spaces(n - 1)

\* text[from..to]
Slice(text, from, to) == SubSeq(text, from, to)

-----------------------------------------------------------------------------
(* The state as one record, so that the methods compose as functions. *)

\* `calling` (not part of the state): the method a value is calling, for `done`.
NoCall == [what |-> "", arg |-> <<>>, from |-> 0, on |-> [ser |-> "", closure |-> "", calls |-> <<>>]]
Calling(m, what, arg) ==
    [m EXCEPT !.calling = [what |-> what, arg |-> arg, from |-> Len(m.output) + 1,
                           on |-> m.cur]]

Now ==
    [ output |-> output, indent |-> indent, line_comment |-> line_comment,
      stack |-> stack, cur |-> cur, result |-> result, done |-> done, nodes |-> nodes,
      calling |-> NoCall ]

Becomes(m) ==
    /\ output' = m.output
    /\ indent' = m.indent
    /\ line_comment' = m.line_comment
    /\ stack' = m.stack
    /\ cur' = m.cur
    /\ result' = m.result
    /\ done' = m.done
    /\ nodes' = m.nodes
    /\ call' = m.calling

\* The serializers a value can be handed.  `calls` lists the function names of
\* the FunctionCallSerializer adapters wrapped around the base serializer,
\* outermost first.
NoSer == [ser |-> "", closure |-> "", calls |-> <<>>]
TheSerializer == [ser |-> "Serializer", closure |-> "", calls |-> <<>>]
BareString(closure) == [ser |-> "BareStringSerializer", closure |-> closure, calls |-> <<>>]

NoResult == [tag |-> "none", text |-> <<>>, error |-> [kind |-> "", detail |-> <<>>]]

\* `?` as it would be if the method of the k-th frame went on after an Err
\* as it does after an Ok, with the comma of a multi-line container.
Question_going_on(m, k) ==
    IF m.stack[k].multiline THEN [m EXCEPT !.output = @ \o <<Ch.comma>>] ELSE m

\* `value.serialize(..)?` in the method of the k-th frame, on an Err: the
\* method returns the Err at once and nothing of its rest runs.
Question(m, k) == m

\* The Err passes the methods suspended in the frames k, k - 1, .. 1.
RECURSIVE Propagate(_, _)
Propagate(m, k) == IF k = 0 THEN m ELSE Propagate(Question(m, k), k - 1)

\* Err(e): `?` hands the error to every enclosing frame and to the caller of
\* to_string; nothing is written after it.
Fail(m, kind, detail) ==
    Propagate([m EXCEPT !.result = [tag |-> "Err", text |-> <<>>,
                                    error |-> [kind |-> kind, detail |-> detail]],
                        !.cur = NoSer],
              Len(m.stack))

\* A failed assertion as it would be if it returned an Err to the caller.
Panic_returning_Err(m, what) == Fail(m, what, <<>>)

\* A failed assertion or an arithmetic overflow: the thread panics.
Panic(m, what) ==
    [m EXCEPT !.result = [tag |-> "Panic", text |-> <<>>,
                          error |-> [kind |-> what, detail |-> <<>>]],
              !.cur = NoSer]

Top(m) == m.stack[Len(m.stack)]
SetTop(m, f) == [m EXCEPT !.stack[Len(m.stack)] = f]

-----------------------------------------------------------------------------
(* WriteStarlark *)

push_str(m, s) == [m EXCEPT !.output = @ \o s]

\* newline() as it would be without the flush of the pending comment.
newline_dropping_comment(m) ==
    [m EXCEPT !.output = @ \o <<Ch.nl>> \o Spaces(m.indent), !.line_comment = None]

WriteStarlark_newline(m) ==
    LET flushed == IF m.line_comment # None
                   THEN m.output \o CommentLead \o m.line_comment[1]
                   ELSE m.output
    IN [m EXCEPT !.output = flushed \o <<Ch.nl>> \o Spaces(m.indent),
                 !.line_comment = None]

\* indent() as it would be with a step of 2.
WriteStarlark_indent_by_two(m) == [m EXCEPT !.indent = @ + 2]

WriteStarlark_indent(m) == [m EXCEPT !.indent = @ + 4]

\* unindent() as it would be if it broke the line before it stepped back.
WriteStarlark_unindent_after_newline(m) ==
    IF m.indent < 4
    THEN Panic(m, "attempt to subtract with overflow")
    ELSE [WriteStarlark_newline(m) EXCEPT !.indent = @ - 4]

\* `self.indent -= 4` on a usize: below 4 the subtraction overflows.
WriteStarlark_unindent(m) ==
    IF m.indent < 4
    THEN Panic(m, "attempt to subtract with overflow")
    ELSE WriteStarlark_newline([m EXCEPT !.indent = @ - 4])

-----------------------------------------------------------------------------
(* Integers.  A Rust integer of any width is a sign and a magnitude, the     *)
(* magnitude in 16-bit limbs, least significant first, without high zero     *)
(* limbs: [neg |-> FALSE, mag |-> <<0, 32768>>] is 2^31.  An i32 is a plain  *)
(* integer.                                                                  *)

Limb == 2 ^ 16

IntTypes == {"i8", "i16", "i32", "i64", "i128", "u8", "u16", "u32", "u64", "u128"}
Signed(ty) == ty \in {"i8", "i16", "i32", "i64", "i128"}
Bits(ty) ==
    CASE ty \in {"i8", "u8"} -> 8
      [] ty \in {"i16", "u16"} -> 16
      [] ty \in {"i32", "u32"} -> 32
      [] ty \in {"i64", "u64"} -> 64
      [] ty \in {"i128", "u128"} -> 128

\* mag < 2^k
MagBelowPow(mag, k) ==
    \/ Len(mag) <= k \div 16
    \/ Len(mag) = (k \div 16) + 1 /\ mag[Len(mag)] < 2 ^ (k % 16)

\* mag = 2^k
MagIsPow(mag, k) ==
    /\ Len(mag) = (k \div 16) + 1
    /\ mag[Len(mag)] = 2 ^ (k % 16)
    /\ \A i \in 1..(Len(mag) - 1) : mag[i] = 0

\* The values of type ty: MIN..MAX.
InType(ty, v) ==
    IF Signed(ty)
    THEN \/ MagBelowPow(v.mag, Bits(ty) - 1)
         \/ v.neg /\ MagIsPow(v.mag, Bits(ty) - 1)
    ELSE ~v.neg /\ MagBelowPow(v.mag, Bits(ty))

\* The i32 a value in -2^31 .. 2^31-1 is.
ToI32(v) ==
    LET sign == IF v.neg THEN -1 ELSE 1
        lo == IF Len(v.mag) >= 1 THEN v.mag[1] ELSE 0
        hi == IF Len(v.mag) >= 2 THEN v.mag[2] ELSE 0
    IN (sign * hi) * Limb + sign * lo

\* i32::from(v), for the types every value of which is an i32.
i32_from(v) == ToI32(v)

\* i32::try_from as it would be if it refused i32::MIN.
try_from_signed_without_min(v) ==
    IF MagBelowPow(v.mag, 31) THEN Some(ToI32(v)) ELSE None

\* i32::try_from(v) of a signed type: Err unless i32::MIN <= v <= i32::MAX.
i32_try_from_signed(v) ==
    IF \/ MagBelowPow(v.mag, 31)
       \/ v.neg /\ MagIsPow(v.mag, 31)
    THEN Some(ToI32(v))
    ELSE None

\* i32::try_from(v) of an unsigned type: Err when v > i32::MAX.
i32_try_from_unsigned(v) ==
    IF MagBelowPow(v.mag, 31) THEN Some(ToI32(v)) ELSE None

RECURSIVE DecDigits(_)
DecDigits(n) ==
    IF n < 10 THEN <<Ch.zero + n>> ELSE DecDigits(n \div 10) \o <<Ch.zero + (n % 10)>>

\* write!(output, "{}", v) of an i32: the decimal digits, after '-' when v < 0.
\* (-v is not an i32 for i32::MIN: the digits are taken from v itself.)
Decimal(v) ==
    IF v >= 0 THEN DecDigits(v)
    ELSE LET r == v % 10            \* 0..9, v = 10 * (v \div 10) + r
             last == (10 - r) % 10
             rest == IF r = 0 THEN -(v \div 10) ELSE -(v \div 10) - 1
         IN <<Ch.minus>> \o (IF rest = 0 THEN <<>> ELSE DecDigits(rest))
                         \o <<Ch.zero + last>>

-----------------------------------------------------------------------------
(* Characters and string literals *)

\* char::is_ascii_control: U+0000..U+001F and U+007F.
is_ascii_control(ch) == ch <= 31 \/ ch = 127

\* char::is_control: the general category Cc, U+0000..U+001F and U+007F..U+009F.
is_control(ch) == ch <= 31 \/ (127 <= ch /\ ch <= 159)

\* char::is_digit(8)
is_digit8(ch) == 48 <= ch /\ ch <= 55

HexDigit(d) == IF d < 10 THEN 48 + d ELSE 65 + (d - 10)

\* {:0wX}: uppercase hexadecimal, at least w digits
RECURSIVE Hex(_, _)
Hex(n, w) ==
    IF n < 16 /\ w <= 1 THEN <<HexDigit(n)>>
    ELSE Hex(n \div 16, w - 1) \o <<HexDigit(n % 16)>>

\* {:o}: octal, no leading zeros
RECURSIVE Octal(_)
Octal(n) == IF n < 8 THEN <<48 + n>> ELSE Octal(n \div 8) \o <<48 + (n % 8)>>

\* The match of serialize_str as it would be without the arm of the double quote.
NamedEscape_without_quote(ch) ==
    CASE ch = 7 -> Some(97)
      [] ch = 8 -> Some(98)
      [] ch = 12 -> Some(102)
      [] ch = 10 -> Some(110)
      [] ch = 13 -> Some(114)
      [] ch = 9 -> Some(116)
      [] ch = 11 -> Some(118)
      [] ch = 92 -> Some(92)
      [] OTHER -> None

\* The match of serialize_str: the letter of the named escape, if ch has one.
NamedEscape(ch) ==
    CASE ch = 7 -> Some(97)       \* \a
      [] ch = 8 -> Some(98)       \* \b
      [] ch = 12 -> Some(102)     \* \f
      [] ch = 10 -> Some(110)     \* \n
      [] ch = 13 -> Some(114)     \* \r
      [] ch = 9 -> Some(116)      \* \t
      [] ch = 11 -> Some(118)     \* \v
      [] ch = 34 -> Some(34)      \* \"
      [] ch = 92 -> Some(92)      \* \\
      [] OTHER -> None

\* The loop of serialize_str as it would be without chars.peek(): every ASCII
\* control character in octal.
EscapeChar_without_peek(ch, peek) ==
    IF NamedEscape(ch) # None
    THEN <<Ch.backslash, NamedEscape(ch)[1]>>
    ELSE IF is_ascii_control(ch)
    THEN <<Ch.backslash>> \o Octal(ch)
    ELSE IF is_control(ch)
    THEN IF ch <= 65535 THEN <<Ch.backslash, 117>> \o Hex(ch, 4)
         ELSE <<Ch.backslash, 85>> \o Hex(ch, 8)
    ELSE <<ch>>

\* One turn of the loop of serialize_str: what is pushed for ch, `peek` being
\* chars.peek(): None at the end of the string, else Some(next).
EscapeChar(ch, peek) ==
    IF NamedEscape(ch) # None
    THEN <<Ch.backslash, NamedEscape(ch)[1]>>
    ELSE IF is_ascii_control(ch) /\ (ch >= 64 \/ peek = None \/ ~is_digit8(peek[1]))
    THEN <<Ch.backslash>> \o Octal(ch)
    ELSE IF is_control(ch)
    THEN IF ch <= 127 THEN <<Ch.backslash, 120>> \o Hex(ch, 2)
         ELSE IF ch <= 65535 THEN <<Ch.backslash, 117>> \o Hex(ch, 4)
         ELSE <<Ch.backslash, 85>> \o Hex(ch, 8)
    ELSE <<ch>>

RECURSIVE EscapeFrom(_, _)
EscapeFrom(v, i) ==
    IF i > Len(v) THEN <<>>
    ELSE EscapeChar(v[i], IF i < Len(v) THEN Some(v[i + 1]) ELSE None)
         \o EscapeFrom(v, i + 1)

\* What serialize_str pushes for v: the quoted, escaped literal.
StringLiteral(v) == <<Ch.quote>> \o EscapeFrom(v, 1) \o <<Ch.quote>>

-----------------------------------------------------------------------------
(* Containers: WriteSeq, WriteTuple, WriteTupleStruct, WriteMap, WriteStruct *)

\* ONELINE = usize::MIN.  MULTILINE = usize::MAX, which stands here as the
\* greatest integer TLC has; the code only compares it.
ONELINE == 0
MULTILINE == 2147483647

\* A container that is open.  kind, multiline, assignment, rename, plus,
\* line_comment and len are the fields of the struct; the others record where
\* the calls on it stand:
\*   api        the trait through which the value writes to it (it differs
\*              from kind behind a FunctionCallArgs)
\*   pending    the method suspended in value.serialize(..), "" if none
\*   auto_end   the adapter that opened it calls end() when its value returns
\*   phase      for a map: whether serialize_key or serialize_value comes next
\*   hint, api_hint, name, from, open_indent, multiline0, elems, elem_from,
\*   elem_key, elem_str, via: history
Frame(m, kind, multiline, hint, name) ==
    [ kind |-> kind, multiline |-> multiline, len |-> 0,
      assignment |-> FALSE, rename |-> FALSE, plus |-> FALSE, line_comment |-> FALSE,
      api |-> "", pending |-> "", auto_end |-> FALSE, phase |-> "key",
      hint |-> hint, api_hint |-> hint, name |-> name, from |-> Len(m.output) + 1,
      open_indent |-> m.indent, multiline0 |-> multiline,
      elems |-> <<>>, elem_from |-> 0, elem_key |-> <<>>, elem_str |-> <<>>,
      via |-> m.cur.calls ]

Open(m, frame, api) ==
    [m EXCEPT !.stack = Append(@, [frame EXCEPT !.api = api]), !.cur = NoSer]

\* The top container hands `ser` to the next value and waits for it.
Await(m, ser, pending) ==
    [ SetTop(m, [Top(m) EXCEPT !.pending = pending, !.elem_from = Len(m.output) + 1,
                               !.elem_str = <<>>])
      EXCEPT !.cur = ser ]

\* The separator as it would be if a container went multi-line only once it
\* held an element.
Separator_by_count(m, sep) ==
    LET f == Top(m)
        m1 == IF f.multiline /\ f.len > 0
              THEN WriteStarlark_newline(IF f.len = 1 THEN WriteStarlark_indent(m) ELSE m)
              ELSE IF f.len > 0 THEN push_str(m, sep) ELSE m
    IN SetTop(m1, [Top(m1) EXCEPT !.len = @ + 1])

\* The common start of serialize_element / serialize_field / serialize_key /
\* pre_key: the separator, then len += 1.
Separator(m, sep) ==
    LET f == Top(m)
        m1 == IF f.multiline
              THEN WriteStarlark_newline(IF f.len = 0 THEN WriteStarlark_indent(m) ELSE m)
              ELSE IF f.len > 0 THEN push_str(m, sep) ELSE m
    IN SetTop(m1, [Top(m1) EXCEPT !.len = @ + 1])

\* The common end: the trailing comma of a multi-line container.
TrailingComma(m) == IF Top(m).multiline THEN push_str(m, <<Ch.comma>>) ELSE m

\* end() as it would be if every multi-line container stepped back, one
\* without elements too.
Unindent_whenever_multiline(m) ==
    IF Top(m).multiline THEN WriteStarlark_unindent(m) ELSE m

\* The common part of end(): unindent() if anything was written on lines of its own.
Unindent(m) ==
    IF Top(m).len # 0 /\ Top(m).multiline THEN WriteStarlark_unindent(m) ELSE m

(* WriteSeq *)
WriteSeq_serialize_element(m) == Await(Separator(m, CommaSpace), TheSerializer, "element")
WriteSeq_serialize_element_ret(m) == TrailingComma(m)
WriteSeq_end(m) == push_str(Unindent(m), <<Ch.rbracket>>)

(* WriteTuple *)
WriteTuple_serialize_element(m) == Await(Separator(m, CommaSpace), TheSerializer, "element")
WriteTuple_serialize_element_ret(m) == TrailingComma(m)
\* end() as it would be without the comma of the one-element tuple.
WriteTuple_end_without_comma(m) == push_str(Unindent(m), <<Ch.rparen>>)

WriteTuple_end(m) ==
    LET f == Top(m)
        m1 == IF f.len = 1 /\ ~f.multiline THEN push_str(m, <<Ch.comma>>) ELSE m
    IN push_str(Unindent(m1), <<Ch.rparen>>)

(* WriteTupleStruct *)
\* serialize_field as it would be if ", " stood between the fields of every
\* tuple struct.
WriteTupleStruct_serialize_field_joined_by_comma(m) ==
    LET f == Top(m)
        counted == SetTop(m, [f EXCEPT !.len = @ + 1])
    IN IF f.assignment
       THEN IF f.len = 0 THEN Await(counted, BareString("assignment"), "assignment")
            ELSE IF f.len # 1 THEN Panic(m, "assertion failed: self.len == 1")
            ELSE Await(counted, TheSerializer, "assignment")
       ELSE IF f.rename THEN Await(m, BareString("rename"), "rename")
       ELSE IF f.line_comment
       THEN IF f.len = 0 THEN Await(counted, BareString("line_comment"), "line_comment")
            ELSE IF f.len # 1 THEN Panic(m, "assertion failed: self.len == 1")
            ELSE Await(counted, TheSerializer, "line_comment")
       ELSE Await(Separator(m, CommaSpace), TheSerializer, "element")

WriteTupleStruct_serialize_field(m) ==
    LET f == Top(m)
        counted == SetTop(m, [f EXCEPT !.len = @ + 1])
    IN IF f.assignment
       THEN IF f.len = 0 THEN Await(counted, BareString("assignment"), "assignment")
            ELSE IF f.len # 1 THEN Panic(m, "assertion failed: self.len == 1")
            ELSE Await(counted, TheSerializer, "assignment")
       ELSE IF f.rename THEN Await(m, BareString("rename"), "rename")
       ELSE IF f.line_comment
       THEN IF f.len = 0 THEN Await(counted, BareString("line_comment"), "line_comment")
            ELSE IF f.len # 1 THEN Panic(m, "assertion failed: self.len == 1")
            ELSE Await(counted, TheSerializer, "line_comment")
       ELSE Await(Separator(m, IF f.plus THEN PlusJoin ELSE CommaSpace),
                  TheSerializer, "element")

\* The return of serialize_field as it would be if the layout was decided
\* anew, from the declared length, once the name has been read.
WriteTupleStruct_serialize_field_ret_layout_anew(m) ==
    LET f == Top(m)
    IN CASE f.pending = "rename" ->
                SetTop(m, [f EXCEPT !.rename = FALSE, !.multiline = f.multiline0])
         [] f.pending = "element" -> TrailingComma(m)
         [] OTHER -> m

WriteTupleStruct_serialize_field_ret(m) ==
    LET f == Top(m)
    IN CASE f.pending = "rename" -> SetTop(m, [f EXCEPT !.rename = FALSE])
         [] f.pending = "element" -> TrailingComma(m)
         [] OTHER -> m

\* end() as it would be if every tuple struct closed a parenthesis.
WriteTupleStruct_end_with_paren(m) ==
    LET f == Top(m)
        m1 == Unindent(m)
    IN IF ~f.plus THEN push_str(m1, <<Ch.rparen>>) ELSE m1

WriteTupleStruct_end(m) ==
    LET f == Top(m)
    IN IF ~f.assignment /\ ~f.line_comment
       THEN LET m1 == Unindent(m)
            IN IF ~f.plus THEN push_str(m1, <<Ch.rparen>>) ELSE m1
       ELSE m

(* WriteMap *)
WriteMap_serialize_key(m) == Await(Separator(m, CommaSpace), TheSerializer, "key")
WriteMap_serialize_key_ret(m) == push_str(m, ColonSpace)
WriteMap_serialize_value(m) == Await(m, TheSerializer, "value")
WriteMap_serialize_value_ret(m) == TrailingComma(m)
WriteMap_end(m) == push_str(Unindent(m), <<Ch.rbrace>>)

(* WriteStruct *)
WriteStruct_pre_key(m) == Separator(m, CommaSpace)
WriteStruct_post_value(m) == TrailingComma(m)

WriteStruct_serialize_field(m, key) ==
    LET m1 ==
          IF Top(m).rename THEN Await(m, BareString("struct_rename"), "struct_rename")
          ELSE IF key = <<>> THEN Await(WriteStruct_pre_key(m), TheSerializer, "field")
          ELSE IF key = StarKey THEN Await(WriteStruct_pre_key(m), BareString("*key"), "*key")
          ELSE IF key = StarValue THEN Await(m, TheSerializer, "field")
          ELSE Await(push_str(push_str(WriteStruct_pre_key(m), key), EqSign),
                     TheSerializer, "field")
    IN SetTop(m1, [Top(m1) EXCEPT !.elem_key = key])

WriteStruct_serialize_field_ret(m) ==
    LET f == Top(m)
    IN CASE f.pending = "struct_rename" ->
                LET m1 == push_str(m, <<Ch.lparen>>)
                IN SetTop(m1, [Top(m1) EXCEPT !.rename = FALSE])
         [] f.pending = "field" -> WriteStruct_post_value(m)
         [] OTHER -> m

WriteStruct_end(m) == push_str(Unindent(m), <<Ch.rparen>>)

-----------------------------------------------------------------------------
(* Returning from a value *)

\* history: a value that has been written through the Serializer
Entry(m, what, arg, from, f) ==
    [ what |-> what, arg |-> arg, from |-> from, to |-> Len(m.output),
      kind |-> f.kind, hint |-> f.hint, api_hint |-> f.api_hint, name |-> f.name,
      len |-> f.len,
      multiline |-> f.multiline, multiline0 |-> f.multiline0, plus |-> f.plus,
      open_indent |-> f.open_indent, end_indent |-> m.indent, elems |-> f.elems,
      depth |-> Len(m.stack), comment |-> m.line_comment ]

Logged(m, entry) == [m EXCEPT !.done = Append(@, entry)]

RECURSIVE MutableWriteStarlark_output(_)
RECURSIVE Resume(_)
RECURSIVE End(_)

\* self.write.output(), then the return of Ok to the caller.  The Serializer of
\* to_string and the containers it opened own the WriteStarlark: output() ends
\* the text with newline() and to_string returns it.  Every other one borrows
\* it: output() is (), and the container that handed the serializer goes on.
MutableWriteStarlark_output(m) ==
    IF m.result.tag # "none" THEN m
    ELSE IF m.stack = <<>>
    THEN LET m1 == WriteStarlark_newline(m)
         IN [m1 EXCEPT !.result = [NoResult EXCEPT !.tag = "Ok", !.text = m1.output],
                       !.cur = NoSer]
    ELSE Resume(m)

\* value.serialize(..) returned Ok inside the suspended method of the top container.
Resume(m) ==
    LET f == Top(m)
        noted == SetTop(m, [f EXCEPT !.elems =
                     Append(@, [role |-> f.pending, key |-> f.elem_key, str |-> f.elem_str,
                                from |-> f.elem_from, to |-> Len(m.output)])])
        m1 == CASE f.kind = "WriteSeq" -> WriteSeq_serialize_element_ret(noted)
                [] f.kind = "WriteTuple" -> WriteTuple_serialize_element_ret(noted)
                [] f.kind = "WriteTupleStruct" -> WriteTupleStruct_serialize_field_ret(noted)
                [] f.kind = "WriteMap" /\ f.pending = "key" -> WriteMap_serialize_key_ret(noted)
                [] f.kind = "WriteMap" /\ f.pending = "value" -> WriteMap_serialize_value_ret(noted)
                [] f.kind = "WriteStruct" -> WriteStruct_serialize_field_ret(noted)
        m2 == [ SetTop(m1, [Top(m1) EXCEPT !.pending = "",
                                           !.phase = IF f.pending \in {"key", "*key"}
                                                     THEN "value" ELSE "key"])
                EXCEPT !.cur = NoSer ]
    IN IF f.auto_end THEN End(m2) ELSE m2

\* end() of the top container.
End(m) ==
    LET f == Top(m)
        m1 == CASE f.kind = "WriteSeq" -> WriteSeq_end(m)
                [] f.kind = "WriteTuple" -> WriteTuple_end(m)
                [] f.kind = "WriteTupleStruct" -> WriteTupleStruct_end(m)
                [] f.kind = "WriteMap" -> WriteMap_end(m)
                [] f.kind = "WriteStruct" -> WriteStruct_end(m)
        popped == [m1 EXCEPT !.stack = SubSeq(@, 1, Len(@) - 1)]
    IN MutableWriteStarlark_output(
           Logged(popped, Entry(popped, f.api, f.via, f.from, Top(m1))))

\* A scalar written by the Serializer.
Wrote(m, text) ==
    LET m1 == push_str(m, text)
        leaf == [Frame(m, "", FALSE, None, <<>>) EXCEPT !.open_indent = m.indent]
    IN MutableWriteStarlark_output(
           Logged(m1, Entry(m1, m.calling.what, m.calling.arg, m.calling.from, leaf)))

-----------------------------------------------------------------------------
(* impl serde::Serializer for Serializer<W> *)

Serializer_serialize_bool(m, v) == Wrote(m, IF v THEN TrueText ELSE FalseText)

Serializer_serialize_i32(m, v) == Wrote(m, Decimal(v))

Serializer_serialize_i8(m, v) == Serializer_serialize_i32(m, i32_from(v))
Serializer_serialize_i16(m, v) == Serializer_serialize_i32(m, i32_from(v))
Serializer_serialize_u8(m, v) == Serializer_serialize_i32(m, i32_from(v))
Serializer_serialize_u16(m, v) == Serializer_serialize_i32(m, i32_from(v))

Serializer_serialize_i64(m, v) ==
    IF i32_try_from_signed(v) # None
    THEN Serializer_serialize_i32(m, i32_try_from_signed(v)[1])
    ELSE Fail(m, "UnsupportedI64", v)

Serializer_serialize_i128(m, v) ==
    IF i32_try_from_signed(v) # None
    THEN Serializer_serialize_i32(m, i32_try_from_signed(v)[1])
    ELSE Fail(m, "UnsupportedI128", v)

Serializer_serialize_u32(m, v) ==
    IF i32_try_from_unsigned(v) # None
    THEN Serializer_serialize_i32(m, i32_try_from_unsigned(v)[1])
    ELSE Fail(m, "UnsupportedU32", v)

Serializer_serialize_u64(m, v) ==
    IF i32_try_from_unsigned(v) # None
    THEN Serializer_serialize_i32(m, i32_try_from_unsigned(v)[1])
    ELSE Fail(m, "UnsupportedU64", v)

Serializer_serialize_u128(m, v) ==
    IF i32_try_from_unsigned(v) # None
    THEN Serializer_serialize_i32(m, i32_try_from_unsigned(v)[1])
    ELSE Fail(m, "UnsupportedU128", v)

\* The method of the integer type ty.
Serializer_serialize_int(m, ty, v) ==
    CASE ty = "i8" -> Serializer_serialize_i8(m, v)
      [] ty = "i16" -> Serializer_serialize_i16(m, v)
      [] ty = "i32" -> Serializer_serialize_i32(m, ToI32(v))
      [] ty = "i64" -> Serializer_serialize_i64(m, v)
      [] ty = "i128" -> Serializer_serialize_i128(m, v)
      [] ty = "u8" -> Serializer_serialize_u8(m, v)
      [] ty = "u16" -> Serializer_serialize_u16(m, v)
      [] ty = "u32" -> Serializer_serialize_u32(m, v)
      [] ty = "u64" -> Serializer_serialize_u64(m, v)
      [] ty = "u128" -> Serializer_serialize_u128(m, v)

Serializer_serialize_f32(m, v) == Fail(m, "UnsupportedF32", v)
Serializer_serialize_f64(m, v) == Fail(m, "UnsupportedF64", v)
Serializer_serialize_char(m, v) == Fail(m, "UnsupportedChar", v)

Serializer_serialize_str(m, v) == Wrote(m, StringLiteral(v))

Serializer_serialize_bytes(m, v) == Fail(m, "UnsupportedBytes", <<>>)

Serializer_serialize_none(m) == Wrote(m, NoneText)

\* serialize_some: value.serialize(self), the value is handed this serializer.
Serializer_serialize_some(m) == m

\* serialize_unit as it would be if the unit value were written as None.
unit_written_as_None(m) == Wrote(m, NoneText)

Serializer_serialize_unit(m) == Fail(m, "UnsupportedUnit", <<>>)

Serializer_serialize_unit_struct(m, name) == Wrote(m, name)

\* serialize_unit_variant as it would be if the name were written without quotes.
unit_variant_written_verbatim(m, name, variant) == Wrote(m, variant)

Serializer_serialize_unit_variant(m, name, variant) == Serializer_serialize_str(m, variant)

Serializer_serialize_newtype_variant(m, name, variant) ==
    Fail(m, "UnsupportedEnum", <<name, variant>>)

Serializer_serialize_tuple_variant(m, name, variant) ==
    Fail(m, "UnsupportedEnum", <<name, variant>>)

Serializer_serialize_struct_variant(m, name, variant) ==
    Fail(m, "UnsupportedEnum", <<name, variant>>)

\* serialize_seq as it would be if one element were enough for a multi-line list.
serialize_seq_multiline_from_one(m, len) ==
    LET multiline == IF len = None THEN TRUE ELSE len[1] > 0
    IN Open(push_str(m, <<Ch.lbracket>>),
            Frame(m, "WriteSeq", multiline, len, <<>>), "seq")

\* len: None or Some(n)
Serializer_serialize_seq(m, len) ==
    LET multiline == IF len = None THEN TRUE ELSE len[1] > 1
    IN Open(push_str(m, <<Ch.lbracket>>),
            Frame(m, "WriteSeq", multiline, len, <<>>), "seq")

\* serialize_tuple as it would be if it followed the rule of the sequences.
serialize_tuple_multiline_from_two(m, len) ==
    LET multiline == (len > 1)
    IN Open(push_str(m, <<Ch.lparen>>),
            Frame(m, "WriteTuple", multiline, len, <<>>), "tuple")

Serializer_serialize_tuple(m, len) ==
    LET multiline == (len = MULTILINE)
    IN Open(push_str(m, <<Ch.lparen>>),
            Frame(m, "WriteTuple", multiline, len, <<>>), "tuple")

\* serialize_tuple_struct as it would be if the length MULTILINE stood for no
\* length at all.
serialize_tuple_struct_without_MULTILINE(m, name, len) ==
    LET is_assignment == (name = <<Ch.eq>>)
        is_rename == (name = <<Ch.lparen>>)
        is_plus == (name = <<Ch.plus>>)
        is_line_comment == (name = <<Ch.hash>>)
        multiline == (len > 1 /\ len # MULTILINE /\ ~is_plus)
        m1 == IF ~is_assignment /\ ~is_rename /\ ~is_plus /\ ~is_line_comment
              THEN push_str(push_str(m, name), <<Ch.lparen>>)
              ELSE m
    IN Open(m1,
            [Frame(m, "WriteTupleStruct", multiline, len, name)
                EXCEPT !.assignment = is_assignment, !.rename = is_rename,
                       !.plus = is_plus, !.line_comment = is_line_comment],
            "tuple_struct")

Serializer_serialize_tuple_struct(m, name, len) ==
    LET is_assignment == (name = <<Ch.eq>>)
        is_rename == (name = <<Ch.lparen>>)
        is_plus == (name = <<Ch.plus>>)
        is_line_comment == (name = <<Ch.hash>>)
        multiline == (len > 1 /\ ~is_plus)
        m1 == IF ~is_assignment /\ ~is_rename /\ ~is_plus /\ ~is_line_comment
              THEN push_str(push_str(m, name), <<Ch.lparen>>)
              ELSE m
    IN Open(m1,
            [Frame(m, "WriteTupleStruct", multiline, len, name)
                EXCEPT !.assignment = is_assignment, !.rename = is_rename,
                       !.plus = is_plus, !.line_comment = is_line_comment],
            "tuple_struct")

\* serialize_map as it would be if it followed the rule of the sequences.
serialize_map_multiline_from_two(m, len) ==
    LET multiline == IF len = None THEN TRUE ELSE len[1] > 1
    IN Open(push_str(m, <<Ch.lbrace>>),
            Frame(m, "WriteMap", multiline, len, <<>>), "map")

Serializer_serialize_map(m, len) ==
    LET multiline == IF len = None THEN TRUE ELSE len[1] > 0
    IN Open(push_str(m, <<Ch.lbrace>>),
            Frame(m, "WriteMap", multiline, len, <<>>), "map")

\* serialize_struct as it would be if it followed the rule of the tuple structs.
serialize_struct_multiline_from_two(m, name, len) ==
    LET rename == (name = <<Ch.lparen>>)
        multiline == (len > 1)
        m1 == IF ~rename THEN push_str(push_str(m, name), <<Ch.lparen>>) ELSE m
    IN Open(m1,
            [Frame(m, "WriteStruct", multiline, len, name) EXCEPT !.rename = rename],
            "struct")

Serializer_serialize_struct(m, name, len) ==
    LET rename == (name = <<Ch.lparen>>)
        multiline == (len >= 1)
        m1 == IF ~rename THEN push_str(push_str(m, name), <<Ch.lparen>>) ELSE m
    IN Open(m1,
            [Frame(m, "WriteStruct", multiline, len, name) EXCEPT !.rename = rename],
            "struct")

-----------------------------------------------------------------------------
(* impl serde::Serializer for BareStringSerializer<F> *)

\* The other methods as they would be with the error of the function calls.
BareStringSerializer_unsupported_as_custom(m) == Fail(m, "Message", <<>>)

\* Every method but serialize_str and serialize_unit_variant.
BareStringSerializer_unsupported(m) == Fail(m, "UnsupportedCall", <<>>)

\* The closures as they would be if a line comment were kept until written.
Closure_keeping_comment(m, string) ==
    LET c == m.cur.closure
        f == [Top(m) EXCEPT !.elem_str = string]
        m0 == SetTop(m, f)
    IN CASE c = "assignment" -> push_str(push_str(m0, string), EqSign)
         [] c = "rename" ->
                IF string = <<Ch.plus>>
                THEN SetTop(m0, [f EXCEPT !.plus = TRUE, !.multiline = FALSE])
                ELSE push_str(push_str(m0, string), <<Ch.lparen>>)
         [] c = "line_comment" ->
                IF m0.line_comment = None
                THEN [m0 EXCEPT !.line_comment = Some(string)] ELSE m0
         [] c = "struct_rename" -> push_str(m0, string)
         [] c = "*key" ->
                IF string # <<>> THEN push_str(push_str(m0, string), EqSign) ELSE m0

\* The closures given to BareStringSerializer::new, by the place that gives
\* them; elem_str notes the string the closure was run on.
Closure(m, string) ==
    LET c == m.cur.closure
        f == [Top(m) EXCEPT !.elem_str = string]
        m0 == SetTop(m, f)
    IN CASE c = "assignment" -> push_str(push_str(m0, string), EqSign)
         [] c = "rename" ->
                IF string = <<Ch.plus>>
                THEN SetTop(m0, [f EXCEPT !.plus = TRUE, !.multiline = FALSE])
                ELSE push_str(push_str(m0, string), <<Ch.lparen>>)
         [] c = "line_comment" -> [m0 EXCEPT !.line_comment = Some(string)]
         [] c = "struct_rename" -> push_str(m0, string)
         [] c = "*key" ->
                IF string # <<>> THEN push_str(push_str(m0, string), EqSign) ELSE m0

\* serialize_str as it would be if the closure was not run.
BareStringSerializer_serialize_str_unread(m, string) == Resume(m)

\* Ok((self.serialize_str)(string)): the closure runs and the caller goes on.
BareStringSerializer_serialize_str(m, string) == Resume(Closure(m, string))

BareStringSerializer_serialize_unit_variant(m, name, variant) ==
    BareStringSerializer_serialize_str(m, variant)

-----------------------------------------------------------------------------
(* impl Serializer for FunctionCallSerializer<S>, FunctionCallArgs<S> *)

IsCall(m) == m.cur.calls # <<>>
IsBare(m) == m.cur.ser = "BareStringSerializer"
Failed(m) == m.result.tag # "none"

UNSUPPORTED == "unsupported function call argument type"

\* The unsupported methods as they would be if the name of the function and
\* "(" were written before the Err is returned.
FunctionCallSerializer_unsupported_after_name(m) ==
    Fail(push_str(m, m.cur.calls[Len(m.cur.calls)] \o <<Ch.lparen>>), "Message", UNSUPPORTED)

\* Err(Error::custom(Self::UNSUPPORTED)): every method but those of the
\* sequences, tuples, tuple structs, maps and structs.
FunctionCallSerializer_unsupported(m) == Fail(m, "Message", UNSUPPORTED)

\* <&str as Serialize>::serialize: the string calls serialize_str on the
\* serializer it is handed (one that is not a FunctionCallSerializer).
str_serialize(m, string) ==
    IF Failed(m) THEN m
    ELSE IF IsBare(m) THEN BareStringSerializer_serialize_str(m, string)
    ELSE Serializer_serialize_str(Calling(m, "str", string), string)

\* delegate.serialize_tuple_struct("(", len) then, on what it returns,
\* delegate.serialize_field(self.function): `calls` are the adapters from the
\* outermost to the one called; each delegates to the one before it, the
\* first to the base serializer.
RECURSIVE FunctionCallSerializer_tuple_struct(_, _, _)
FunctionCallSerializer_tuple_struct(m, calls, len) ==
    IF calls = <<>>
    THEN IF IsBare(m) THEN BareStringSerializer_unsupported(m)
         ELSE Serializer_serialize_tuple_struct(m, <<Ch.lparen>>, len)
    ELSE LET delegate == FunctionCallSerializer_tuple_struct(
                             m, SubSeq(calls, 1, Len(calls) - 1), len)
         IN IF Failed(delegate) THEN delegate
            ELSE str_serialize(WriteTupleStruct_serialize_field(delegate),
                               calls[Len(calls)])

\* delegate.serialize_struct("(", len) then delegate.serialize_field("", self.function)
RECURSIVE FunctionCallSerializer_struct(_, _, _)
FunctionCallSerializer_struct(m, calls, len) ==
    IF calls = <<>>
    THEN IF IsBare(m) THEN BareStringSerializer_unsupported(m)
         ELSE Serializer_serialize_struct(m, <<Ch.lparen>>, len)
    ELSE LET delegate == FunctionCallSerializer_struct(
                             m, SubSeq(calls, 1, Len(calls) - 1), len)
         IN IF Failed(delegate) THEN delegate
            ELSE str_serialize(WriteStruct_serialize_field(delegate, <<>>),
                               calls[Len(calls)])

\* The container is written to through `api`, which was given the hint `len`.
Through(m, api, len) ==
    IF Failed(m) THEN m
    ELSE SetTop(m, [Top(m) EXCEPT !.api = api, !.api_hint = len])

unwrap_or(len, default) == IF len = None THEN default ELSE len[1]

\* serialize_seq as it would be if an unknown length stood for one element.
FunctionCallSerializer_seq_unknown_as_one(m, len) ==
    Through(FunctionCallSerializer_tuple_struct(m, m.cur.calls, unwrap_or(len, 1)),
            "seq", len)

FunctionCallSerializer_serialize_seq(m, len) ==
    Through(FunctionCallSerializer_tuple_struct(m, m.cur.calls, unwrap_or(len, 2)),
            "seq", len)

\* serialize_tuple as it would be if the arguments kept the layout of a tuple.
FunctionCallSerializer_tuple_kept_oneline(m, len) ==
    Through(FunctionCallSerializer_tuple_struct(
                m, m.cur.calls, IF len = MULTILINE THEN len ELSE ONELINE),
            "tuple", len)

FunctionCallSerializer_serialize_tuple(m, len) ==
    Through(FunctionCallSerializer_tuple_struct(m, m.cur.calls, len), "tuple", len)

FunctionCallSerializer_serialize_tuple_struct(m, name, len) ==
    Through(FunctionCallSerializer_tuple_struct(m, m.cur.calls, len), "tuple_struct", len)

\* serialize_map as it would be if an unknown length stood for no entry.
FunctionCallSerializer_map_unknown_as_empty(m, len) ==
    Through(FunctionCallSerializer_struct(m, m.cur.calls, unwrap_or(len, 0)),
            "map", len)

FunctionCallSerializer_serialize_map(m, len) ==
    Through(FunctionCallSerializer_struct(m, m.cur.calls, unwrap_or(len, 2)),
            "map", len)

FunctionCallSerializer_serialize_struct(m, name, len) ==
    Through(FunctionCallSerializer_struct(m, m.cur.calls, len), "struct", len)

-----------------------------------------------------------------------------
(* The method a value calls, on the serializer it holds *)

\* A method every serializer but the Serializer answers with its error.
OnSerializer(m, ok) ==
    IF IsCall(m) THEN FunctionCallSerializer_unsupported(m)
    ELSE IF IsBare(m) THEN BareStringSerializer_unsupported(m)
    ELSE ok

serialize_bool(m, v) ==
    LET c == Calling(m, "bool", v) IN OnSerializer(c, Serializer_serialize_bool(c, v))

serialize_int(m, ty, v) ==
    LET c == Calling(m, ty, v) IN OnSerializer(c, Serializer_serialize_int(c, ty, v))

serialize_f32(m, v) ==
    LET c == Calling(m, "f32", v) IN OnSerializer(c, Serializer_serialize_f32(c, v))

serialize_f64(m, v) ==
    LET c == Calling(m, "f64", v) IN OnSerializer(c, Serializer_serialize_f64(c, v))

serialize_char(m, v) ==
    LET c == Calling(m, "char", v) IN OnSerializer(c, Serializer_serialize_char(c, v))

serialize_bytes(m, v) ==
    LET c == Calling(m, "bytes", v) IN OnSerializer(c, Serializer_serialize_bytes(c, v))

serialize_none(m) ==
    LET c == Calling(m, "none", <<>>) IN OnSerializer(c, Serializer_serialize_none(c))

serialize_some(m) ==
    LET c == Calling(m, "some", <<>>) IN OnSerializer(c, Serializer_serialize_some(c))

serialize_unit(m) ==
    LET c == Calling(m, "unit", <<>>) IN OnSerializer(c, Serializer_serialize_unit(c))

serialize_unit_struct(m, name) ==
    LET c == Calling(m, "unit_struct", name)
    IN OnSerializer(c, Serializer_serialize_unit_struct(c, name))

serialize_newtype_variant(m, name, variant) ==
    LET c == Calling(m, "newtype_variant", <<name, variant>>)
    IN OnSerializer(c, Serializer_serialize_newtype_variant(c, name, variant))

serialize_tuple_variant(m, name, variant) ==
    LET c == Calling(m, "tuple_variant", <<name, variant>>)
    IN OnSerializer(c, Serializer_serialize_tuple_variant(c, name, variant))

serialize_struct_variant(m, name, variant) ==
    LET c == Calling(m, "struct_variant", <<name, variant>>)
    IN OnSerializer(c, Serializer_serialize_struct_variant(c, name, variant))

serialize_str(m, v) ==
    LET c == Calling(m, "str", v)
    IN IF IsCall(c) THEN FunctionCallSerializer_unsupported(c)
       ELSE IF IsBare(c) THEN BareStringSerializer_serialize_str(c, v)
       ELSE Serializer_serialize_str(c, v)

serialize_unit_variant(m, name, variant) ==
    LET c == Calling(m, "unit_variant", <<name, variant>>)
    IN IF IsCall(c) THEN FunctionCallSerializer_unsupported(c)
       ELSE IF IsBare(c) THEN BareStringSerializer_serialize_unit_variant(c, name, variant)
       ELSE Serializer_serialize_unit_variant(c, name, variant)

serialize_seq(m, len) ==
    LET c == Calling(m, "seq", len)
    IN IF IsCall(c) THEN FunctionCallSerializer_serialize_seq(c, len)
       ELSE IF IsBare(c) THEN BareStringSerializer_unsupported(c)
       ELSE Serializer_serialize_seq(c, len)

serialize_tuple(m, len) ==
    LET c == Calling(m, "tuple", len)
    IN IF IsCall(c) THEN FunctionCallSerializer_serialize_tuple(c, len)
       ELSE IF IsBare(c) THEN BareStringSerializer_unsupported(c)
       ELSE Serializer_serialize_tuple(c, len)

serialize_tuple_struct(m, name, len) ==
    LET c == Calling(m, "tuple_struct", <<name, len>>)
    IN IF IsCall(c) THEN FunctionCallSerializer_serialize_tuple_struct(c, name, len)
       ELSE IF IsBare(c) THEN BareStringSerializer_unsupported(c)
       ELSE Serializer_serialize_tuple_struct(c, name, len)

serialize_map(m, len) ==
    LET c == Calling(m, "map", len)
    IN IF IsCall(c) THEN FunctionCallSerializer_serialize_map(c, len)
       ELSE IF IsBare(c) THEN BareStringSerializer_unsupported(c)
       ELSE Serializer_serialize_map(c, len)

serialize_struct(m, name, len) ==
    LET c == Calling(m, "struct", <<name, len>>)
    IN IF IsCall(c) THEN FunctionCallSerializer_serialize_struct(c, name, len)
       ELSE IF IsBare(c) THEN BareStringSerializer_unsupported(c)
       ELSE Serializer_serialize_struct(c, name, len)

\* The next field of the top container takes a value: the container's method
\* runs up to value.serialize(..).
serialize_field(m, key) ==
    LET f == Top(m)
    IN CASE f.kind = "WriteSeq" -> WriteSeq_serialize_element(m)
         [] f.kind = "WriteTuple" -> WriteTuple_serialize_element(m)
         [] f.kind = "WriteTupleStruct" -> WriteTupleStruct_serialize_field(m)
         [] f.kind = "WriteMap" /\ f.phase = "key" -> WriteMap_serialize_key(m)
         [] f.kind = "WriteMap" /\ f.phase = "value" -> WriteMap_serialize_value(m)
         [] f.kind = "WriteStruct" -> WriteStruct_serialize_field(m, key)

\* Serializer::serialize_newtype_struct: a tuple struct of one field, ended
\* when the field returns.
Serializer_serialize_newtype_struct(m, name) ==
    LET tuple == Serializer_serialize_tuple_struct(m, name, 1)
    IN WriteTupleStruct_serialize_field(
           SetTop(tuple, [Top(tuple) EXCEPT !.auto_end = TRUE, !.api = "newtype_struct"]))

serialize_newtype_struct(m, name) ==
    LET c == Calling(m, "newtype_struct", name)
    IN OnSerializer(c, Serializer_serialize_newtype_struct(c, name))

\* The value a two-field adapter wraps is handed its serializer; end() follows
\* its return.
WrappedValue(m, api) ==
    IF Failed(m) THEN m
    ELSE serialize_field(SetTop(m, [Top(m) EXCEPT !.auto_end = TRUE, !.api = api]), <<>>)

\* impl Serialize for Assignment
Assignment_serialize(m, identifier) ==
    LET assignment == serialize_tuple_struct(m, <<Ch.eq>>, 0)
    IN IF Failed(assignment) THEN assignment
       ELSE WrappedValue(str_serialize(serialize_field(assignment, <<>>), identifier),
                         "Assignment")

\* LineComment::new as it would be without its second assertion.
LineComment_new_without_line_check(comment) ==
    ~(Len(comment) >= 1 /\ comment[1] = Ch.hash)

\* LineComment::new: the two assertions.
LineComment_new(comment) ==
    /\ ~(Len(comment) >= 1 /\ comment[1] = Ch.hash)
    /\ \A i \in 1..Len(comment) : comment[i] # Ch.nl

\* impl Serialize for LineComment
LineComment_serialize(m, comment) ==
    LET line == serialize_tuple_struct(m, <<Ch.hash>>, 2)
    IN IF Failed(line) THEN line
       ELSE WrappedValue(str_serialize(serialize_field(line, <<>>), comment),
                         "LineComment")

\* impl Serialize for FunctionCall: args.serialize(FunctionCallSerializer {..})
FunctionCall_serialize(m, function) == [m EXCEPT !.cur.calls = Append(@, function)]

-----------------------------------------------------------------------------
(* The state machine *)

\* to_string: value.serialize(Serializer), over WriteStarlark::new().
Init ==
    /\ output = <<>>
    /\ indent = 0
    /\ line_comment = None
    /\ stack = <<>>
    /\ cur = TheSerializer
    /\ result = NoResult
    /\ done = <<>>
    /\ nodes = 1
    /\ call = NoCall

\* A value holds a serializer and has not called it yet.
ValueTurn == result.tag = "none" /\ cur.ser # ""

\* The value that opened the top container goes on: next field, or end().
ContainerTurn == result.tag = "none" /\ cur.ser = "" /\ stack # <<>>

\* A step that hands a serializer to one more value.
Handing(max, m) == nodes < max /\ Becomes([m EXCEPT !.nodes = @ + 1])

(* scalars *)
SerializeBool(v) == ValueTurn /\ Becomes(serialize_bool(Now, v))
SerializeInt(ty, v) == ValueTurn /\ Becomes(serialize_int(Now, ty, v))
SerializeF32(v) == ValueTurn /\ Becomes(serialize_f32(Now, v))
SerializeF64(v) == ValueTurn /\ Becomes(serialize_f64(Now, v))
SerializeChar(v) == ValueTurn /\ Becomes(serialize_char(Now, v))
SerializeStr(v) == ValueTurn /\ Becomes(serialize_str(Now, v))
SerializeBytes(v) == ValueTurn /\ Becomes(serialize_bytes(Now, v))
SerializeNone == ValueTurn /\ Becomes(serialize_none(Now))
SerializeUnit == ValueTurn /\ Becomes(serialize_unit(Now))
SerializeUnitStruct(name) == ValueTurn /\ Becomes(serialize_unit_struct(Now, name))
SerializeUnitVariant(name, variant) ==
    ValueTurn /\ Becomes(serialize_unit_variant(Now, name, variant))
SerializeNewtypeVariant(name, variant) ==
    ValueTurn /\ Becomes(serialize_newtype_variant(Now, name, variant))
SerializeTupleVariant(name, variant) ==
    ValueTurn /\ Becomes(serialize_tuple_variant(Now, name, variant))
SerializeStructVariant(name, variant) ==
    ValueTurn /\ Becomes(serialize_struct_variant(Now, name, variant))

(* values that wrap a value *)
SerializeSome(max) == ValueTurn /\ Handing(max, serialize_some(Now))
SerializeNewtypeStruct(name, max) == ValueTurn /\ Handing(max, serialize_newtype_struct(Now, name))
SerializeAssignment(identifier, max) ==
    ValueTurn /\ Handing(max, Assignment_serialize(Now, identifier))
\* LineComment::new(value, comment).serialize(serializer): a failed assertion
\* of new panics before anything is serialized.
SerializeLineComment(comment, max) ==
    /\ ValueTurn
    /\ IF LineComment_new(comment)
       THEN Handing(max, LineComment_serialize(Now, comment))
       ELSE Becomes(Panic(Calling(Now, "LineComment::new", comment),
                          "assertion failed"))
SerializeFunctionCall(function, max) ==
    ValueTurn /\ Handing(max, FunctionCall_serialize(Now, function))

(* containers *)
SerializeSeq(len) == ValueTurn /\ Becomes(serialize_seq(Now, len))
SerializeTuple(len) == ValueTurn /\ Becomes(serialize_tuple(Now, len))
SerializeTupleStruct(name, len) == ValueTurn /\ Becomes(serialize_tuple_struct(Now, name, len))
SerializeMap(len) == ValueTurn /\ Becomes(serialize_map(Now, len))
SerializeStruct(name, len) == ValueTurn /\ Becomes(serialize_struct(Now, name, len))

\* SerializeSeq::serialize_element, SerializeTuple::serialize_element
SerializeElement(max) ==
    /\ ContainerTurn
    /\ Top(Now).api \in {"seq", "tuple"}
    /\ Handing(max, serialize_field(Now, <<>>))

\* SerializeTupleStruct::serialize_field
SerializeField(max) ==
    /\ ContainerTurn
    /\ Top(Now).api = "tuple_struct"
    /\ Handing(max, serialize_field(Now, <<>>))

\* SerializeMap::serialize_key; behind a FunctionCallArgs the key is "*key"
SerializeKey(max) ==
    /\ ContainerTurn
    /\ Top(Now).api = "map" /\ Top(Now).phase = "key"
    /\ Handing(max, serialize_field(Now, StarKey))

\* SerializeMap::serialize_value; behind a FunctionCallArgs the key is "*value"
SerializeValue(max) ==
    /\ ContainerTurn
    /\ Top(Now).api = "map" /\ Top(Now).phase = "value"
    /\ Handing(max, serialize_field(Now, StarValue))

\* SerializeStruct::serialize_field
SerializeStructField(key, max) ==
    /\ ContainerTurn
    /\ Top(Now).api = "struct"
    /\ Handing(max, serialize_field(Now, key))

\* end() of the container the value opened
SerializeEnd ==
    /\ ContainerTurn
    /\ Top(Now).api = "map" => Top(Now).phase = "key"
    /\ Becomes(End(Now))

-----------------------------------------------------------------------------
(* Spec: every kind of container and adapter, few hints, few scalars *)

NameF == <<102>>            \* "f"
NameX == <<120>>            \* "x"
NameK == <<107>>            \* "k"
NameC == <<99>>             \* "c"
NameU == <<85>>             \* "U"
NameE == <<69>>             \* "E"
NameV == <<86>>             \* "V"

OptionOf(S) == {None} \cup {Some(n) : n \in S}

\* (name, len) of the tuple structs and of the structs opened
TupleStructs ==
    { <<NameF, 0>>, <<NameF, 2>>, <<<<Ch.lparen>>, 0>>, <<<<Ch.lparen>>, 2>>,
      <<<<Ch.plus>>, 2>>, <<<<Ch.eq>>, 0>>, <<<<Ch.hash>>, 2>> }
Structs == { <<NameF, 0>>, <<NameF, 2>>, <<<<Ch.lparen>>, 2>> }

Next ==
    \/ \E v \in {NameX} : SerializeStr(v)
    \/ SerializeUnit
    \/ SerializeSome(MaxNodes)
    \/ \E name \in {NameF} : SerializeNewtypeStruct(name, MaxNodes)
    \/ \E identifier \in {NameX} : SerializeAssignment(identifier, MaxNodes)
    \/ \E comment \in {NameC} : SerializeLineComment(comment, MaxNodes)
    \/ \E function \in {NameF, <<Ch.plus>>} : SerializeFunctionCall(function, MaxNodes)
    \/ \E len \in OptionOf({0}) : SerializeSeq(len)
    \/ \E len \in {0, MULTILINE} : SerializeTuple(len)
    \/ \E t \in TupleStructs : SerializeTupleStruct(t[1], t[2])
    \/ \E len \in OptionOf({0}) : SerializeMap(len)
    \/ \E t \in Structs : SerializeStruct(t[1], t[2])
    \/ SerializeElement(MaxNodes)
    \/ SerializeField(MaxNodes)
    \/ SerializeKey(MaxNodes)
    \/ SerializeValue(MaxNodes)
    \/ \E key \in {NameK, <<>>} : SerializeStructField(key, MaxNodes)
    \/ SerializeEnd

Spec == Init /\ [][Next]_vars

-----------------------------------------------------------------------------
(* SpecSeq, SpecTuple, SpecMap: one kind of container, nested in itself,   *)
(* under every kind of length hint                                         *)

MaxLayoutNodes == 5

LayoutHints == {0, 1, 2, MULTILINE}

NextSeq ==
    \/ \E v \in {TRUE} : SerializeBool(v)
    \/ \E len \in OptionOf({0, 1, 2}) : SerializeSeq(len)
    \/ SerializeElement(MaxLayoutNodes)
    \/ SerializeEnd

SpecSeq == Init /\ [][NextSeq]_vars

NextTuple ==
    \/ \E v \in {TRUE} : SerializeBool(v)
    \/ \E len \in LayoutHints : SerializeTuple(len)
    \/ SerializeElement(MaxLayoutNodes)
    \/ SerializeEnd

SpecTuple == Init /\ [][NextTuple]_vars

NextMap ==
    \/ \E v \in {TRUE} : SerializeBool(v)
    \/ \E len \in OptionOf(LayoutHints) : SerializeMap(len)
    \/ SerializeKey(MaxLayoutNodes)
    \/ SerializeValue(MaxLayoutNodes)
    \/ SerializeEnd

SpecMap == Init /\ [][NextMap]_vars

-----------------------------------------------------------------------------
(* SpecInt: to_string of one integer, of every type, around every power of   *)
(* two at which a type ends                                                   *)

\* n as a sign and a magnitude, for -2^31 < n < 2^31
FromInt(n) ==
    LET a == IF n < 0 THEN -n ELSE n
    IN [ neg |-> n < 0,
         mag |-> IF a = 0 THEN <<>>
                 ELSE IF a < Limb THEN <<a>>
                 ELSE <<a % Limb, a \div Limb>> ]

\* The magnitudes 2^k - 1, 2^k and 2^k + 1
PowMag(k) == [i \in 1..((k \div 16) + 1) |-> IF i = (k \div 16) + 1 THEN 2 ^ (k % 16) ELSE 0]
PowLessOneMag(k) ==
    [i \in 1..((k + 15) \div 16) |-> IF i = (k \div 16) + 1 THEN 2 ^ (k % 16) - 1 ELSE Limb - 1]
PowPlusOneMag(k) == [PowMag(k) EXCEPT ![1] = @ + 1]

TypeEnds == {7, 8, 15, 16, 31, 32, 63, 64, 127, 128}

IntSamples ==
    { FromInt(n) : n \in {0, 1, -1, 9, 10, -10, 99, -100, 1000, 65535, -65535, 65537,
                          1234567890, -1234567890, 2147483646, -2147483647} }
    \cup { [neg |-> neg, mag |-> mag] :
              neg \in BOOLEAN,
              mag \in { PowMag(k) : k \in TypeEnds } \cup { PowLessOneMag(k) : k \in TypeEnds }
                      \cup { PowPlusOneMag(k) : k \in TypeEnds } }

NextInt ==
    ValueTurn /\ \E ty \in IntTypes : \E v \in IntSamples : InType(ty, v) /\ SerializeInt(ty, v)

SpecInt == Init /\ [][NextInt]_vars

-----------------------------------------------------------------------------
(* SpecStr: to_string of one string, every string of a few characters of    *)
(* every class                                                               *)

MaxStrLen == 3

\* NUL, U+0001, BEL, LF, ESC, U+001F, '"', '0', '7', '8', 'A', '\\', 'n', 'x',
\* DEL, U+0080, U+009F, U+00A0, U+0414, U+1F600
Chars == {0, 1, 7, 10, 27, 31, 34, 48, 55, 56, 65, 92, 110, 120,
          127, 128, 159, 160, 1044, 128512}

Strings(max) == UNION { [1..n -> Chars] : n \in 0..max }

NextStr == ValueTurn /\ \E v \in Strings(MaxStrLen) : SerializeStr(v)

SpecStr == Init /\ [][NextStr]_vars

-----------------------------------------------------------------------------
(* SpecScalar: every kind of scalar, alone, under Some, in a sequence, in a  *)
(* map and as the arguments of a FunctionCall                                *)

MaxScalarNodes == 4

Floats == {"1.5", "NaN"}
Variants == {<<NameE, NameV>>, <<NameE, <<Ch.quote>>>>}

NextScalar ==
    \/ \E v \in BOOLEAN : SerializeBool(v)
    \/ SerializeNone
    \/ \E name \in {NameU} : SerializeUnitStruct(name)
    \/ \E t \in Variants : SerializeUnitVariant(t[1], t[2])
    \/ \E v \in Floats : SerializeF32(v)
    \/ \E v \in Floats : SerializeF64(v)
    \/ \E v \in {120} : SerializeChar(v)
    \/ \E v \in {<<0>>} : SerializeBytes(v)
    \/ SerializeUnit
    \/ \E t \in {<<NameE, NameV>>} : SerializeNewtypeVariant(t[1], t[2])
    \/ \E t \in {<<NameE, NameV>>} : SerializeTupleVariant(t[1], t[2])
    \/ \E t \in {<<NameE, NameV>>} : SerializeStructVariant(t[1], t[2])
    \/ SerializeSome(MaxScalarNodes)
    \/ \E function \in {NameF} : SerializeFunctionCall(function, MaxScalarNodes)
    \/ \E len \in {None} : SerializeSeq(len)
    \/ \E len \in {None} : SerializeMap(len)
    \/ SerializeElement(MaxScalarNodes)
    \/ SerializeKey(MaxScalarNodes)
    \/ SerializeValue(MaxScalarNodes)
    \/ SerializeEnd

SpecScalar == Init /\ [][NextScalar]_vars

-----------------------------------------------------------------------------
(* Calls: tuple structs, newtype structs and structs of an ordinary name,
   under every kind of length hint, with fields of any number *)

MaxCallNodes == 3

NextCall ==
    \/ \E v \in {TRUE} : SerializeBool(v)
    \/ \E len \in LayoutHints : SerializeTupleStruct(NameF, len)
    \/ \E len \in LayoutHints : SerializeStruct(NameF, len)
    \/ SerializeNewtypeStruct(NameF, MaxCallNodes)
    \/ SerializeField(MaxCallNodes)
    \/ \E key \in {NameK, <<>>} : SerializeStructField(key, MaxCallNodes)
    \/ SerializeEnd

SpecCall == Init /\ [][NextCall]_vars

-----------------------------------------------------------------------------
(* The two layout constants: every kind of container opened with ONELINE or
   with MULTILINE, with elements of any number *)

MaxHintNodes == 3

LayoutConstants == {ONELINE, MULTILINE}

NextHint ==
    \/ \E v \in {TRUE} : SerializeBool(v)
    \/ \E len \in LayoutConstants : SerializeSeq(Some(len))
    \/ \E len \in LayoutConstants : SerializeTuple(len)
    \/ \E len \in LayoutConstants : SerializeTupleStruct(NameF, len)
    \/ \E len \in LayoutConstants : SerializeMap(Some(len))
    \/ \E len \in LayoutConstants : SerializeStruct(NameF, len)
    \/ SerializeElement(MaxHintNodes)
    \/ SerializeField(MaxHintNodes)
    \/ SerializeKey(MaxHintNodes)
    \/ SerializeValue(MaxHintNodes)
    \/ \E key \in {NameK} : SerializeStructField(key, MaxHintNodes)
    \/ SerializeEnd

SpecHint == Init /\ [][NextHint]_vars

-----------------------------------------------------------------------------
(* Declared and written lengths: sequences and structs opened with a small
   length and given fewer or more elements than declared *)

MaxDeclaredNodes == 5

NextDeclared ==
    \/ \E v \in {TRUE} : SerializeBool(v)
    \/ \E len \in {1, 2} : SerializeSeq(Some(len))
    \/ \E len \in {0, 1} : SerializeStruct(NameF, len)
    \/ SerializeElement(MaxDeclaredNodes)
    \/ \E key \in {NameK} : SerializeStructField(key, MaxDeclaredNodes)
    \/ SerializeEnd

SpecDeclared == Init /\ [][NextDeclared]_vars

-----------------------------------------------------------------------------
(* Function calls: FunctionCall over sequences, tuples, tuple structs and
   structs declared under a name of their own *)

MaxCallArgNodes == 4

NextCallArgs ==
    \/ \E v \in {TRUE} : SerializeBool(v)
    \/ \E function \in {NameF} : SerializeFunctionCall(function, MaxCallArgNodes)
    \/ \E len \in {Some(1)} : SerializeSeq(len)
    \/ \E len \in {2} : SerializeTuple(len)
    \/ \E len \in {1, 2} : SerializeTupleStruct(NameU, len)
    \/ \E len \in {0, 1} : SerializeStruct(NameU, len)
    \/ SerializeElement(MaxCallArgNodes)
    \/ SerializeField(MaxCallArgNodes)
    \/ \E key \in {NameK} : SerializeStructField(key, MaxCallArgNodes)
    \/ SerializeEnd

SpecCallArgs == Init /\ [][NextCallArgs]_vars

-----------------------------------------------------------------------------
(* Function calls over maps: keys that are strings, the empty one among
   them, under known and unknown lengths *)

MaxCallMapNodes == 6

NextCallMap ==
    \/ \E v \in {NameK, <<>>} : SerializeStr(v)
    \/ \E function \in {NameF} : SerializeFunctionCall(function, MaxCallMapNodes)
    \/ \E len \in OptionOf({0, 1}) : SerializeMap(len)
    \/ SerializeKey(MaxCallMapNodes)
    \/ SerializeValue(MaxCallMapNodes)
    \/ SerializeEnd

SpecCallMap == Init /\ [][NextCallMap]_vars

-----------------------------------------------------------------------------
(* Line comments: LineComment over scalars, over sequences of one line and
   of several, and over one another *)

MaxCommentNodes == 5

\* two comments LineComment::new accepts, two it does not: "#c", "c\n"
Comments == {NameC, NameE, <<Ch.hash>> \o NameC, NameC \o <<Ch.nl>>}

NextComment ==
    \/ \E v \in {TRUE} : SerializeBool(v)
    \/ \E comment \in Comments : SerializeLineComment(comment, MaxCommentNodes)
    \/ \E len \in OptionOf({1}) : SerializeSeq(len)
    \/ SerializeElement(MaxCommentNodes)
    \/ SerializeEnd

SpecComment == Init /\ [][NextComment]_vars

-----------------------------------------------------------------------------
(* Bare strings: values of every shape where a string is read bare, as the
   first field of the tuple structs "=", "(", "#" and of the struct "(", and
   as a key of a map that is the arguments of a function call *)

MaxBareNodes == 3

NextBare ==
    \/ \E v \in {TRUE} : SerializeBool(v)
    \/ \E v \in {FromInt(1)} : SerializeInt("i32", v)
    \/ \E v \in {NameX} : SerializeStr(v)
    \/ SerializeNone
    \/ SerializeUnit
    \/ \E name \in {NameU} : SerializeUnitStruct(name)
    \/ \E t \in {<<NameE, NameV>>} : SerializeUnitVariant(t[1], t[2])
    \/ SerializeSome(MaxBareNodes)
    \/ \E name \in {NameF} : SerializeNewtypeStruct(name, MaxBareNodes)
    \/ \E function \in {NameF} : SerializeFunctionCall(function, MaxBareNodes)
    \/ \E len \in {None} : SerializeSeq(len)
    \/ \E len \in {0} : SerializeTuple(len)
    \/ \E name \in {<<Ch.eq>>, <<Ch.lparen>>, <<Ch.hash>>} : SerializeTupleStruct(name, 2)
    \/ \E len \in {None} : SerializeMap(len)
    \/ \E name \in {<<Ch.lparen>>} : SerializeStruct(name, 2)
    \/ SerializeElement(MaxBareNodes)
    \/ SerializeField(MaxBareNodes)
    \/ SerializeKey(MaxBareNodes)
    \/ SerializeValue(MaxBareNodes)
    \/ \E key \in {<<>>} : SerializeStructField(key, MaxBareNodes)
    \/ SerializeEnd

SpecBare == Init /\ [][NextBare]_vars

-----------------------------------------------------------------------------
(* Indentation: every kind of container under a hint that puts it on several
   lines, the adapters, and "+" as the name of a function and as a string *)

MaxIndentNodes == 4

NextIndent ==
    \/ \E v \in {TRUE} : SerializeBool(v)
    \/ \E v \in {<<Ch.plus>>} : SerializeStr(v)
    \/ \E identifier \in {NameX} : SerializeAssignment(identifier, MaxIndentNodes)
    \/ \E comment \in {NameC} : SerializeLineComment(comment, MaxIndentNodes)
    \/ \E function \in {<<Ch.plus>>} : SerializeFunctionCall(function, MaxIndentNodes)
    \/ \E len \in {None} : SerializeSeq(len)
    \/ \E len \in {MULTILINE} : SerializeTuple(len)
    \/ \E name \in {<<Ch.lparen>>} : SerializeTupleStruct(name, 2)
    \/ \E len \in {None} : SerializeMap(len)
    \/ \E name \in {NameF} : SerializeStruct(name, 1)
    \/ SerializeElement(MaxIndentNodes)
    \/ SerializeField(MaxIndentNodes)
    \/ SerializeKey(MaxIndentNodes)
    \/ SerializeValue(MaxIndentNodes)
    \/ \E key \in {NameK} : SerializeStructField(key, MaxIndentNodes)
    \/ SerializeEnd

SpecIndent == Init /\ [][NextIndent]_vars

-----------------------------------------------------------------------------
(* Containers with and without elements: every kind, declared empty,
   declared with two elements, declared MULTILINE and of unknown length,
   and as the arguments of a function call *)

MaxEmptyNodes == 3

EmptyHints == {0, 2, MULTILINE}

NextEmpty ==
    \/ \E v \in {TRUE} : SerializeBool(v)
    \/ \E function \in {NameF} : SerializeFunctionCall(function, MaxEmptyNodes)
    \/ \E len \in OptionOf(EmptyHints) : SerializeSeq(len)
    \/ \E len \in EmptyHints : SerializeTuple(len)
    \/ \E len \in EmptyHints : SerializeTupleStruct(NameU, len)
    \/ \E len \in OptionOf(EmptyHints) : SerializeMap(len)
    \/ \E len \in EmptyHints : SerializeStruct(NameU, len)
    \/ SerializeElement(MaxEmptyNodes)
    \/ SerializeField(MaxEmptyNodes)
    \/ SerializeKey(MaxEmptyNodes)
    \/ SerializeValue(MaxEmptyNodes)
    \/ \E key \in {NameK} : SerializeStructField(key, MaxEmptyNodes)
    \/ SerializeEnd

SpecEmpty == Init /\ [][NextEmpty]_vars

-----------------------------------------------------------------------------
(* Unknown lengths: sequences and maps opened without a length, by
   themselves and as the arguments of a function call *)

MaxUnknownNodes == 5

NextUnknown ==
    \/ \E v \in {NameK} : SerializeStr(v)
    \/ \E function \in {NameF} : SerializeFunctionCall(function, MaxUnknownNodes)
    \/ \E len \in {None} : SerializeSeq(len)
    \/ \E len \in {None} : SerializeMap(len)
    \/ SerializeElement(MaxUnknownNodes)
    \/ SerializeKey(MaxUnknownNodes)
    \/ SerializeValue(MaxUnknownNodes)
    \/ SerializeEnd

SpecUnknown == Init /\ [][NextUnknown]_vars

-----------------------------------------------------------------------------
(* The two-field forms: Assignment and LineComment, and tuple structs opened
   under "=" and "#" by a value of its own, with fields of any number *)

MaxFormNodes == 5

NextForm ==
    \/ \E v \in {TRUE} : SerializeBool(v)
    \/ \E v \in {NameX} : SerializeStr(v)
    \/ \E identifier \in {NameX} : SerializeAssignment(identifier, MaxFormNodes)
    \/ \E comment \in {NameC} : SerializeLineComment(comment, MaxFormNodes)
    \/ \E name \in {<<Ch.eq>>, <<Ch.hash>>} : \E len \in {0, 2, 3} :
           SerializeTupleStruct(name, len)
    \/ SerializeField(MaxFormNodes)
    \/ SerializeEnd

SpecForm == Init /\ [][NextForm]_vars

-----------------------------------------------------------------------------
(* Arguments: values of every shape as the arguments of a function call, at
   the top and as an element of a container *)

MaxArgumentNodes == 4

NextArgument ==
    \/ \E v \in {TRUE} : SerializeBool(v)
    \/ \E ty \in {"i8", "u64", "i128"} : SerializeInt(ty, FromInt(1))
    \/ \E v \in {"1.5"} : SerializeF32(v)
    \/ \E v \in {"1.5"} : SerializeF64(v)
    \/ \E v \in {120} : SerializeChar(v)
    \/ \E v \in {NameX} : SerializeStr(v)
    \/ \E v \in {<<0>>} : SerializeBytes(v)
    \/ SerializeNone
    \/ SerializeSome(MaxArgumentNodes)
    \/ SerializeUnit
    \/ \E name \in {NameU} : SerializeUnitStruct(name)
    \/ \E t \in {<<NameE, NameV>>} : SerializeUnitVariant(t[1], t[2])
    \/ \E name \in {NameU} : SerializeNewtypeStruct(name, MaxArgumentNodes)
    \/ \E t \in {<<NameE, NameV>>} : SerializeNewtypeVariant(t[1], t[2])
    \/ \E t \in {<<NameE, NameV>>} : SerializeTupleVariant(t[1], t[2])
    \/ \E t \in {<<NameE, NameV>>} : SerializeStructVariant(t[1], t[2])
    \/ \E function \in {NameF} : SerializeFunctionCall(function, MaxArgumentNodes)
    \/ \E len \in {Some(1)} : SerializeSeq(len)
    \/ \E len \in {1} : SerializeTuple(len)
    \/ \E name \in {NameU} : SerializeTupleStruct(name, 1)
    \/ \E len \in {Some(0)} : SerializeMap(len)
    \/ \E name \in {NameU} : SerializeStruct(name, 0)
    \/ SerializeElement(MaxArgumentNodes)
    \/ SerializeField(MaxArgumentNodes)
    \/ SerializeKey(MaxArgumentNodes)
    \/ SerializeValue(MaxArgumentNodes)
    \/ \E key \in {NameK} : SerializeStructField(key, MaxArgumentNodes)
    \/ SerializeEnd

SpecArgument == Init /\ [][NextArgument]_vars

-----------------------------------------------------------------------------
(* Properties *)

\* The value to_string was given, once it has been written.
Whole == done[Len(done)]

\* C1: when to_string succeeds, the text it returns is the text of the value,
\* then the comment that was still pending when the value ended (as "  # c"),
\* then one line break and nothing after it: the indent is back to 0.
C1_EndsWithOneNewline ==
    result.tag = "Ok" =>
        /\ Whole.depth = 0 /\ Whole.from = 1
        /\ result.text = Slice(output, 1, Whole.to)
                          \o (IF Whole.comment # None
                              THEN CommentLead \o Whole.comment[1] ELSE <<>>)
                          \o <<Ch.nl>>
        /\ Whole.end_indent = 0 /\ indent = 0
        /\ line_comment = None

\* A multi-line container inside a commented value has been written, and the
\* comment was pending when the final line break was added.
C1_Witness ==
    /\ result.tag = "Ok"
    /\ Whole.comment # None
    /\ \E i \in 1..Len(done) : done[i].multiline /\ done[i].len > 0

\* -2^31 <= v <= 2^31 - 1
InI32Range(v) ==
    \/ Len(v.mag) <= 1
    \/ Len(v.mag) = 2 /\ v.mag[2] < 32768
    \/ v.neg /\ v.mag = <<0, 32768>>

\* The magnitude the decimal digits text[i..] add to the magnitude
\* <<lo, hi>> = lo + 65536 * hi, as two limbs.
RECURSIVE ReadDigits(_, _, _, _)
ReadDigits(text, i, lo, hi) ==
    IF i > Len(text) THEN <<lo, hi>>
    ELSE LET d == text[i] - Ch.zero
             low == lo * 10 + d
         IN ReadDigits(text, i + 1, low % Limb, hi * 10 + (low \div Limb))

\* text is the decimal representation of v: '-' exactly when v < 0, then
\* digits without a leading zero (0 itself is "0") whose value is |v|.
IsDecimalOf(text, v) ==
    LET digits == IF v.neg THEN Slice(text, 2, Len(text)) ELSE text
        read == ReadDigits(digits, 1, 0, 0)
        limbs == IF read[2] # 0 THEN read ELSE IF read[1] # 0 THEN <<read[1]>> ELSE <<>>
    IN /\ v.neg => Len(text) >= 2 /\ text[1] = Ch.minus
       /\ Len(digits) \in 1..10
       /\ \A i \in 1..Len(digits) : digits[i] \in 48..57
       /\ Len(digits) > 1 => digits[1] # Ch.zero
       /\ limbs = v.mag

UnsupportedKind(ty) ==
    CASE ty = "i64" -> "UnsupportedI64"
      [] ty = "i128" -> "UnsupportedI128"
      [] ty = "u32" -> "UnsupportedU32"
      [] ty = "u64" -> "UnsupportedU64"
      [] ty = "u128" -> "UnsupportedU128"
      [] OTHER -> "no such error"

\* C2: an integer of any type given to to_string: in -2^31 .. 2^31-1 the
\* result is Ok, its decimal representation and the line break; outside, the
\* result is the unsupported-integer error of its type with the value itself,
\* and no text has been written.
C2_IntegerRange ==
    call.what \in IntTypes =>
        IF InI32Range(call.arg)
        THEN /\ result.tag = "Ok"
             /\ Len(result.text) >= 2
             /\ result.text[Len(result.text)] = Ch.nl
             /\ IsDecimalOf(Slice(result.text, 1, Len(result.text) - 1), call.arg)
        ELSE /\ result.tag = "Err"
             /\ result.error.kind = UnsupportedKind(call.what)
             /\ result.error.detail = call.arg
             /\ output = <<>>

\* i32::MIN, given as an i64, has been written.
C2_Witness ==
    /\ call.what = "i64"
    /\ call.arg = [neg |-> TRUE, mag |-> <<0, 32768>>]
    /\ result.tag = "Ok"

\* The string literal to_string returned: the text without its line break.
Literal == Slice(result.text, 1, Len(result.text) - 1)

\* The value of a hexadecimal digit, -1 for any other character.
HexValue(c) ==
    IF c \in 48..57 THEN c - 48
    ELSE IF c \in 65..70 THEN c - 55
    ELSE IF c \in 97..102 THEN c - 87
    ELSE -1

\* The value of the n hexadecimal digits t[i .. i+n-1], -1 if they are not there.
RECURSIVE HexRun(_, _, _)
HexRun(t, i, n) ==
    IF n = 0 THEN 0
    ELSE IF i + n - 1 > Len(t) \/ HexValue(t[i + n - 1]) < 0 THEN -1
    ELSE LET high == HexRun(t, i, n - 1)
         IN IF high < 0 THEN -1 ELSE high * 16 + HexValue(t[i + n - 1])

IsOctalDigit(t, i) == i <= Len(t) /\ t[i] \in 48..55

\* The number of octal digits an octal escape takes at t[i]: greedy, 1 to 3.
OctalRun(t, i) ==
    IF IsOctalDigit(t, i + 1) THEN (IF IsOctalDigit(t, i + 2) THEN 3 ELSE 2) ELSE 1

RECURSIVE OctalValue(_, _, _)
OctalValue(t, i, n) ==
    IF n = 0 THEN 0 ELSE OctalValue(t, i, n - 1) * 8 + (t[i + n - 1] - 48)

\* The character a named escape letter stands for, -1 if it is none.
Named(c) ==
    CASE c = 97 -> 7 [] c = 98 -> 8 [] c = 102 -> 12 [] c = 110 -> 10 [] c = 114 -> 13
      [] c = 116 -> 9 [] c = 118 -> 11 [] c = 34 -> 34 [] c = 92 -> 92 [] OTHER -> -1

Invalid == <<-1>>

\* Decoding of the inside of a string literal under the escape grammar: named
\* escapes, greedy octal escapes of 1 to 3 digits, \xHH, \uHHHH, \UHHHHHHHH.
\* A character the grammar does not allow ends the result with -1.
RECURSIVE DecodeFrom(_, _)
DecodeFrom(t, i) ==
    IF i > Len(t) THEN <<>>
    ELSE IF t[i] = Ch.quote \/ t[i] = Ch.nl THEN Invalid
    ELSE IF t[i] # Ch.backslash THEN <<t[i]>> \o DecodeFrom(t, i + 1)
    ELSE IF i + 1 > Len(t) THEN Invalid
    ELSE LET c == t[i + 1]
         IN IF Named(c) >= 0 THEN <<Named(c)>> \o DecodeFrom(t, i + 2)
            ELSE IF IsOctalDigit(t, i + 1)
            THEN <<OctalValue(t, i + 1, OctalRun(t, i + 1))>>
                 \o DecodeFrom(t, i + 1 + OctalRun(t, i + 1))
            ELSE IF c = 120
            THEN IF HexRun(t, i + 2, 2) < 0 THEN Invalid
                 ELSE <<HexRun(t, i + 2, 2)>> \o DecodeFrom(t, i + 4)
            ELSE IF c = 117
            THEN IF HexRun(t, i + 2, 4) < 0 THEN Invalid
                 ELSE <<HexRun(t, i + 2, 4)>> \o DecodeFrom(t, i + 6)
            ELSE IF c = 85
            THEN IF HexRun(t, i + 2, 2) # 0 \/ HexRun(t, i + 4, 6) < 0 THEN Invalid
                 ELSE <<HexRun(t, i + 4, 6)>> \o DecodeFrom(t, i + 10)
            ELSE Invalid

Decode(lit) ==
    IF Len(lit) < 2 \/ lit[1] # Ch.quote \/ lit[Len(lit)] # Ch.quote THEN Invalid
    ELSE DecodeFrom(Slice(lit, 2, Len(lit) - 1), 1)

\* C3: the literal written for a string s decodes to s, and writing what it
\* decodes to gives the same literal again; so a digit after a control
\* character is never read as part of that character's octal escape.
C3_StringRoundTrip ==
    call.what = "str" =>
        /\ result.tag = "Ok"
        /\ Decode(Literal) = call.arg
        /\ StringLiteral(Decode(Literal)) = Literal

\* A string in which an octal digit follows a control character has been written.
C3_Witness ==
    /\ call.what = "str" /\ result.tag = "Ok"
    /\ \E i \in 1..(Len(call.arg) - 1) :
           call.arg[i] \in {0, 1, 27, 31, 127} /\ call.arg[i + 1] \in {48, 55}

\* The nine characters that have a named escape, with its letter.
NamedLetter ==
    (7 :> 97) @@ (8 :> 98) @@ (12 :> 102) @@ (10 :> 110) @@ (13 :> 114) @@ (9 :> 116)
    @@ (11 :> 118) @@ (34 :> 34) @@ (92 :> 92)

AsciiControls == (0..31) \cup {127}
UpperHex == <<48, 49, 50, 51, 52, 53, 54, 55, 56, 57, 65, 66, 67, 68, 69, 70>>

\* The n uppercase hexadecimal digits of ch
RECURSIVE FixedHex(_, _)
FixedHex(ch, n) ==
    IF n = 0 THEN <<>> ELSE FixedHex(ch \div 16, n - 1) \o <<UpperHex[(ch % 16) + 1]>>

\* The octal digits of ch, without leading zeros
ShortOctal(ch) ==
    IF ch < 8 THEN <<48 + ch>>
    ELSE IF ch < 64 THEN <<48 + (ch \div 8), 48 + (ch % 8)>>
    ELSE <<48 + (ch \div 64), 48 + ((ch \div 8) % 8), 48 + (ch % 8)>>

\* What stands for the character s[i] in the literal of s, by its class.
Encoded(s, i) ==
    LET ch == s[i]
    IN IF ch \in DOMAIN NamedLetter THEN <<Ch.backslash, NamedLetter[ch]>>
       ELSE IF ch \in AsciiControls
       THEN IF ch < 64 /\ i < Len(s) /\ s[i + 1] \in 48..55
            THEN <<Ch.backslash, 120>> \o FixedHex(ch, 2)
            ELSE <<Ch.backslash>> \o ShortOctal(ch)
       ELSE IF ch \in 128..159
       THEN IF ch <= 65535 THEN <<Ch.backslash, 117>> \o FixedHex(ch, 4)
            ELSE <<Ch.backslash, 85>> \o FixedHex(ch, 8)
       ELSE <<ch>>

RECURSIVE EncodedFrom(_, _)
EncodedFrom(s, i) == IF i > Len(s) THEN <<>> ELSE Encoded(s, i) \o EncodedFrom(s, i + 1)

\* The characters of t that no backslash stands before: those that are
\* neither a backslash of an escape nor the character that follows it.
RECURSIVE Unescaped(_, _)
Unescaped(t, i) ==
    IF i > Len(t) THEN <<>>
    ELSE IF t[i] = Ch.backslash THEN Unescaped(t, i + 2)
    ELSE <<t[i]>> \o Unescaped(t, i + 1)

\* C4: the literal of a string is '"', then for each character what its
\* class asks for (named escape; octal without leading zeros for the other
\* ASCII controls, \xHH before an octal digit when below octal 100; \uHHHH or
\* \UHHHHHHHH for the other controls; else the character itself), then '"'.
\* Between the outer quotes there is no control character, and no double
\* quote that is not escaped.
C4_StringEscapes ==
    call.what = "str" =>
        /\ result.tag = "Ok"
        /\ Literal = <<Ch.quote>> \o EncodedFrom(call.arg, 1) \o <<Ch.quote>>
        /\ LET inside == Slice(Literal, 2, Len(Literal) - 1)
           IN /\ \A i \in 1..Len(inside) :
                     ~(inside[i] <= 31 \/ inside[i] \in 127..159)
              /\ \A i \in 1..Len(Unescaped(inside, 1)) :
                     Unescaped(inside, 1)[i] # Ch.quote

\* A string with a double quote, a named control and another control
\* character has been written.
C4_Witness ==
    /\ call.what = "str" /\ result.tag = "Ok"
    /\ \E i, j, k \in 1..Len(call.arg) :
           /\ call.arg[i] = Ch.quote
           /\ call.arg[j] \in {7, 10}
           /\ call.arg[k] \in {0, 1, 27, 31, 127, 128, 159}

\* The error kind of each unsupported kind of value
OwnKind ==
    [ f32 |-> "UnsupportedF32", f64 |-> "UnsupportedF64", char |-> "UnsupportedChar",
      bytes |-> "UnsupportedBytes", unit |-> "UnsupportedUnit",
      newtype_variant |-> "UnsupportedEnum", tuple_variant |-> "UnsupportedEnum",
      struct_variant |-> "UnsupportedEnum" ]

\* The last step was a float, a char, a byte string, the unit value or a
\* variant with a payload describing itself.
UnsupportedCalled == call.what \in DOMAIN OwnKind

FailedWithOwnKind ==
    /\ result.tag = "Err"
    /\ result.error.kind = OwnKind[call.what]
    /\ call.what \notin {"bytes", "unit"} => result.error.detail = call.arg

\* C5 as stated: wherever it occurs, an unsupported value fails with the
\* error of its own kind.
C5_OwnKindEverywhere == UnsupportedCalled => FailedWithOwnKind

\* C5: a float, a char, a byte string, the unit value and a variant with a
\* payload always fail, and to_string never returns Ok once one has described
\* itself (a failed to_string takes no further step).  The error is that of
\* the value's own kind, with its value or its enum and variant, when the
\* value was handed the Serializer; the message of FunctionCall when it is
\* the argument of a FunctionCall; the unsupported-call error when it stands
\* where a bare string is read.
C5_UnsupportedValues ==
    UnsupportedCalled =>
        IF call.on.calls # <<>>
        THEN /\ result.tag = "Err"
             /\ result.error.kind = "Message"
             /\ result.error.detail = "unsupported function call argument type"
        ELSE IF call.on.ser = "BareStringSerializer"
        THEN result.tag = "Err" /\ result.error.kind = "UnsupportedCall"
        ELSE FailedWithOwnKind

\* A variant with a payload has failed as an element of a sequence inside a
\* sequence.
C5_Witness ==
    /\ call.what = "tuple_variant" /\ call.on = TheSerializer
    /\ Len(stack) = 2
    /\ result.tag = "Err" /\ result.error.kind = "UnsupportedEnum"

\* C6: through the Serializer, a boolean is written True or False, an absent
\* optional None, a unit struct its name as it is, a variant without payload
\* the quoted and escaped literal of its name; a present optional writes
\* nothing of its own and hands its value the serializer it was handed.
C6_Written ==
    \A i \in 1..Len(done) :
        LET text == Slice(output, done[i].from, done[i].to)
        IN /\ done[i].what = "bool" => text = (IF done[i].arg THEN TrueText ELSE FalseText)
           /\ done[i].what = "none" => text = NoneText
           /\ done[i].what = "unit_struct" => text = done[i].arg
           /\ done[i].what = "unit_variant" =>
                  text = <<Ch.quote>> \o EncodedFrom(done[i].arg[2], 1) \o <<Ch.quote>>

C6_SomeIsItsValue ==
    (call'.what = "some" /\ call'.on = TheSerializer) =>
        /\ cur' = TheSerializer /\ cur = TheSerializer
        /\ UNCHANGED <<output, indent, line_comment, stack, result, done>>

C6_LiteralForms == [](C6_Written) /\ [][C6_SomeIsItsValue]_vars

\* A present optional describes itself after a variant without payload was
\* written in the same sequence.
C6_Witness ==
    /\ call.what = "some" /\ call.on = TheSerializer
    /\ \E i \in 1..Len(done) : done[i].what = "unit_variant" /\ done[i].depth = 1

(* Layout *)

TextOf(e) == Slice(output, e.from, e.to)

\* The last line break of the text at or before pos, 0 if there is none.
RECURSIVE LineBreakBefore(_)
LineBreakBefore(pos) ==
    IF pos = 0 THEN 0 ELSE IF output[pos] = Ch.nl THEN pos ELSE LineBreakBefore(pos - 1)

\* The number of spaces in the text from j on, before pos.
RECURSIVE SpacesFrom(_, _)
SpacesFrom(j, pos) ==
    IF j < pos /\ output[j] = Ch.space THEN 1 + SpacesFrom(j + 1, pos) ELSE 0

\* The indent of the line on which the container e was opened.
OpeningIndent(e) == SpacesFrom(LineBreakBefore(e.from) + 1, e.from)

\* The texts of the elements k.. of e, each after `lead` and before `trail`,
\* `between` standing between two of them.
RECURSIVE Items(_, _, _, _, _)
Items(e, k, lead, trail, between) ==
    IF k > Len(e.elems) THEN <<>>
    ELSE lead \o Slice(output, e.elems[k].from, e.elems[k].to) \o trail
         \o (IF k < Len(e.elems) THEN between ELSE <<>>)
         \o Items(e, k + 1, lead, trail, between)

\* open, the elements separated by ", ", close
OneLine(e, open, close) == open \o Items(e, 1, <<>>, <<>>, CommaSpace) \o close

\* open, each element on a line of its own, one level deeper than the line
\* of `open` and followed by a comma, close on a line of its own at the
\* indent of the line of `open`
MultiLine(e, open, close) ==
    open \o Items(e, 1, <<Ch.nl>> \o Spaces(OpeningIndent(e) + 4), <<Ch.comma>>, <<>>)
         \o <<Ch.nl>> \o Spaces(OpeningIndent(e)) \o close

\* The sequences that have been written in full.
IsSeq(e) == e.what = "seq" /\ e.kind = "WriteSeq"

\* C7: a sequence declared with the number n of its elements: for n = 0 and
\* n = 1, "[" the element if any "]", without comma; for n > 1 every element
\* on its own line, 4 spaces deeper than the line of "[", followed by a
\* comma, and "]" on its own line at the indent of the line of "[".
C7_SeqLayout ==
    \A i \in 1..Len(done) :
        (IsSeq(done[i]) /\ done[i].hint = Some(Len(done[i].elems))) =>
            /\ done[i].len = Len(done[i].elems)
            /\ TextOf(done[i]) =
                   IF Len(done[i].elems) <= 1
                   THEN OneLine(done[i], <<Ch.lbracket>>, <<Ch.rbracket>>)
                   ELSE MultiLine(done[i], <<Ch.lbracket>>, <<Ch.rbracket>>)

\* A sequence of two elements, declared as such, has been written inside a
\* multi-line sequence, and so has a sequence of one element.
C7_Witness ==
    /\ \E i \in 1..Len(done) :
           /\ IsSeq(done[i]) /\ done[i].hint = Some(2) /\ Len(done[i].elems) = 2
           /\ OpeningIndent(done[i]) = 4
    /\ \E i \in 1..Len(done) :
           IsSeq(done[i]) /\ done[i].hint = Some(1) /\ Len(done[i].elems) = 1

\* The maps that have been written in full.
IsMap(e) == e.what = "map" /\ e.kind = "WriteMap"

\* The entries k.. of the map e: each key, ": ", its value, after `lead` and
\* before `trail`, `between` standing between two of them.
RECURSIVE Entries(_, _, _, _, _)
Entries(e, k, lead, trail, between) ==
    IF 2 * k > Len(e.elems) THEN <<>>
    ELSE lead \o Slice(output, e.elems[2 * k - 1].from, e.elems[2 * k - 1].to)
              \o ColonSpace
              \o Slice(output, e.elems[2 * k].from, e.elems[2 * k].to) \o trail
         \o (IF 2 * k < Len(e.elems) THEN between ELSE <<>>)
         \o Entries(e, k + 1, lead, trail, between)

OneLineMap(e) ==
    <<Ch.lbrace>> \o Entries(e, 1, <<>>, <<>>, CommaSpace) \o <<Ch.rbrace>>

MultiLineMap(e) ==
    <<Ch.lbrace>>
    \o Entries(e, 1, <<Ch.nl>> \o Spaces(OpeningIndent(e) + 4), <<Ch.comma>>, <<>>)
    \o <<Ch.nl>> \o Spaces(OpeningIndent(e)) \o <<Ch.rbrace>>

\* C8: a map without entries is "{}".  A map with entries is multi-line, each
\* entry as key, ": ", value and a comma on its own line, 4 spaces deeper
\* than the line of "{", and "}" on its own line at the indent of the line of
\* "{", when its length was declared unknown or as its number of entries, and
\* under every other hint but ONELINE; under ONELINE it is on one line, the
\* entries separated by ", ", without a comma after the last.
C8_MapLayout ==
    \A i \in 1..Len(done) :
        IsMap(done[i]) =>
            /\ Len(done[i].elems) = 2 * done[i].len
            /\ TextOf(done[i]) =
                   IF done[i].len = 0 THEN <<Ch.lbrace, Ch.rbrace>>
                   ELSE IF done[i].hint = Some(ONELINE) THEN OneLineMap(done[i])
                   ELSE MultiLineMap(done[i])

\* A map of one entry, declared as such, has been written as a value of a
\* map of unknown length.
C8_Witness ==
    \E i, j \in 1..Len(done) :
        /\ IsMap(done[i]) /\ done[i].hint = Some(1) /\ done[i].len = 1
        /\ OpeningIndent(done[i]) = 4
        /\ IsMap(done[j]) /\ done[j].hint = None /\ done[j].len = 1

\* The tuples that have been written in full.
IsTuple(e) == e.what = "tuple" /\ e.kind = "WriteTuple"

\* "(", the elements separated by ", ", a comma after an only element, ")";
\* the indent is what it was when the tuple was opened.
OneLineTuple(e) ==
    /\ TextOf(e) = OneLine(e, <<Ch.lparen>>,
                           IF Len(e.elems) = 1 THEN <<Ch.comma, Ch.rparen>> ELSE <<Ch.rparen>>)
    /\ e.end_indent = e.open_indent

\* C9 as stated: a tuple is on one line under every length hint.
C9_AlwaysOneLine == \A i \in 1..Len(done) : IsTuple(done[i]) => OneLineTuple(done[i])

\* C9: a tuple is on one line, its elements separated by ", ", whatever the
\* number of its elements, under every length hint but MULTILINE; under
\* MULTILINE a tuple with elements has each of them on its own line, 4 spaces
\* deeper, followed by a comma, and ")" on its own line.
C9_TupleLayout ==
    \A i \in 1..Len(done) :
        IsTuple(done[i]) =>
            IF done[i].hint = MULTILINE /\ Len(done[i].elems) > 0
            THEN TextOf(done[i]) = MultiLine(done[i], <<Ch.lparen>>, <<Ch.rparen>>)
            ELSE OneLineTuple(done[i])

\* A tuple of three elements declared with length 1 has been written, inside
\* a tuple.
C9_Witness ==
    \E i \in 1..Len(done) :
        /\ IsTuple(done[i]) /\ done[i].hint = 1 /\ Len(done[i].elems) = 3
        /\ done[i].depth = 1

\* C10: a tuple of exactly one element has a comma right after that element,
\* and on one line nothing but that comma before ")"; a tuple of no element
\* or of two or more elements on one line has ")" right after "(" or after
\* its last element.
C10_OneElementTupleComma ==
    \A i \in 1..Len(done) :
        IsTuple(done[i]) =>
            LET e == done[i]
                n == Len(e.elems)
            IN /\ output[e.to] = Ch.rparen
               /\ n = 1 => /\ output[e.elems[1].to + 1] = Ch.comma
                           /\ ~e.multiline => e.to = e.elems[1].to + 2
               /\ (n = 0 /\ ~e.multiline) => e.to = e.from + 1
               /\ (n >= 2 /\ ~e.multiline) => e.to = e.elems[n].to + 1

\* A tuple of one element has been written on one line inside another.
C10_Witness ==
    \E i \in 1..Len(done) :
        /\ IsTuple(done[i]) /\ Len(done[i].elems) = 1 /\ ~done[i].multiline
        /\ done[i].depth = 1

\* The names under which a tuple struct or a struct is no call of that name.
ReservedNames == {<<Ch.eq>>, <<Ch.lparen>>, <<Ch.plus>>, <<Ch.hash>>}

\* What stands before the value of an argument: its key and " = " for a field
\* of a struct under an ordinary key, nothing for a field of a tuple struct,
\* for a field under the empty key and for the two halves of a map entry.
KeyPrefix(x) ==
    IF x.role = "field" /\ x.key \notin {<<>>, StarKey, StarValue}
    THEN x.key \o EqSign ELSE <<>>

\* The arguments k.. of the call e: each after `lead` and before `trail`,
\* `between` standing between two of them.  The key half of a map entry
\* (its text is the key and " = ", or nothing) and the value half that
\* follows it are one argument.
RECURSIVE Args(_, _, _, _, _)
Args(e, k, lead, trail, between) ==
    IF k > Len(e.elems) THEN <<>>
    ELSE LET x == e.elems[k]
         IN (IF x.key = StarValue THEN <<>> ELSE lead)
            \o KeyPrefix(x) \o Slice(output, x.from, x.to)
            \o (IF x.role = "*key" THEN <<>>
                ELSE trail \o (IF k < Len(e.elems) THEN between ELSE <<>>))
            \o Args(e, k + 1, lead, trail, between)

\* head, the arguments from the k-th on separated by ", ", ")"
OneLineCall(e, head, k) == head \o Args(e, k, <<>>, <<>>, CommaSpace) \o <<Ch.rparen>>

\* head, each argument from the k-th on on a line of its own, one level
\* deeper than the line of the head and followed by a comma, ")" on a line of
\* its own at the indent of the line of the head
MultiLineCall(e, head, k) ==
    head \o Args(e, k, <<Ch.nl>> \o Spaces(OpeningIndent(e) + 4), <<Ch.comma>>, <<>>)
         \o <<Ch.nl>> \o Spaces(OpeningIndent(e)) \o <<Ch.rparen>>

\* The text of the call e of head `head` whose arguments are the elements of
\* e from the k-th on, on several lines or on one.
CallText(e, head, k, multiline) ==
    IF multiline /\ Len(e.elems) >= k THEN MultiLineCall(e, head, k)
    ELSE OneLineCall(e, head, k)

\* The structs and the tuple structs (a newtype struct among them) of an
\* ordinary name, written in full by the Serializer.
IsKeywordCall(e) ==
    e.what = "struct" /\ e.kind = "WriteStruct" /\ e.name \notin ReservedNames
IsPositionalCall(e) ==
    /\ e.what \in {"tuple_struct", "newtype_struct"} /\ e.kind = "WriteTupleStruct"
    /\ e.name \notin ReservedNames

\* C11: a struct or tuple struct of an ordinary name is written as the name,
\* "(", its fields and ")".  A field of a struct is its key, " = " and its
\* value (its value alone under the empty key); a field of a tuple struct is
\* its value.  The fields are on lines of their own, each followed by a
\* comma, iff the declared number of fields is >= 1 for a struct and > 1 for
\* a tuple struct, and on one line separated by ", " otherwise; a newtype
\* struct is name(value).
C11_CallLayout ==
    \A i \in 1..Len(done) :
        LET e == done[i]
            head == e.name \o <<Ch.lparen>>
        IN /\ IsKeywordCall(e) =>
                  /\ \A k \in 1..Len(e.elems) : e.elems[k].role = "field"
                  /\ TextOf(e) = CallText(e, head, 1, e.hint >= 1)
           /\ IsPositionalCall(e) =>
                  /\ \A k \in 1..Len(e.elems) : e.elems[k].key = <<>>
                  /\ TextOf(e) = CallText(e, head, 1, e.hint > 1)
           /\ (IsPositionalCall(e) /\ e.what = "newtype_struct") =>
                  /\ Len(e.elems) = 1
                  /\ TextOf(e) = head \o Slice(output, e.elems[1].from, e.elems[1].to)
                                      \o <<Ch.rparen>>

\* A tuple struct declared with one field has been written with one field,
\* which is a struct declared with one field and written with one field
\* under an ordinary key.
C11_Witness ==
    \E i, j \in 1..Len(done) :
        /\ IsKeywordCall(done[i]) /\ done[i].hint = 1 /\ Len(done[i].elems) = 1
        /\ done[i].elems[1].key = NameK
        /\ IsPositionalCall(done[j]) /\ done[j].what = "tuple_struct"
        /\ done[j].hint = 1 /\ Len(done[j].elems) = 1
        /\ done[j].elems[1].from = done[i].from

\* The hint with which the container e was opened, as a number: the length of
\* a sequence or a map is optional, None is no number.
HintOf(e) ==
    IF e.what \in {"seq", "map"} THEN (IF e.hint = None THEN -1 ELSE e.hint[1]) ELSE e.hint

\* The containers the Serializer itself wrote in full: sequences, tuples,
\* maps and the two calls.
IsContainer(e) ==
    IsSeq(e) \/ IsTuple(e) \/ IsMap(e) \/ IsKeywordCall(e) \/ IsPositionalCall(e)

\* The text of the container e on one line: its elements separated by ", ".
OnOneLine(e) ==
    CASE IsSeq(e) -> TextOf(e) = OneLine(e, <<Ch.lbracket>>, <<Ch.rbracket>>)
      [] IsTuple(e) -> OneLineTuple(e)
      [] IsMap(e) -> TextOf(e) = OneLineMap(e)
      [] OTHER -> TextOf(e) = OneLineCall(e, e.name \o <<Ch.lparen>>, 1)

\* The text of the container e on several lines: every element on a line of
\* its own, followed by a comma.
OnSeveralLines(e) ==
    CASE IsSeq(e) -> TextOf(e) = MultiLine(e, <<Ch.lbracket>>, <<Ch.rbracket>>)
      [] IsTuple(e) -> TextOf(e) = MultiLine(e, <<Ch.lparen>>, <<Ch.rparen>>)
      [] IsMap(e) -> TextOf(e) = MultiLineMap(e)
      [] OTHER -> TextOf(e) = MultiLineCall(e, e.name \o <<Ch.lparen>>, 1)

\* C12: a sequence, tuple, map, struct or tuple struct opened with ONELINE is
\* written on one line, its elements separated by ", ", whatever their
\* number; opened with MULTILINE and given elements, it has every element on
\* a line of its own followed by a comma, be there only one.
C12_LayoutConstants ==
    \A i \in 1..Len(done) :
        IsContainer(done[i]) =>
            /\ HintOf(done[i]) = ONELINE => OnOneLine(done[i])
            /\ (HintOf(done[i]) = MULTILINE /\ Len(done[i].elems) > 0) =>
                   OnSeveralLines(done[i])

\* A tuple struct opened with MULTILINE has been written with one field,
\* which is a struct opened with ONELINE and written with one field.
C12_Witness ==
    \E i, j \in 1..Len(done) :
        /\ IsKeywordCall(done[i]) /\ done[i].hint = ONELINE /\ Len(done[i].elems) = 1
        /\ IsPositionalCall(done[j]) /\ done[j].hint = MULTILINE
        /\ Len(done[j].elems) = 1
        /\ done[j].elems[1].from = done[i].from

\* Whether the container e is multi-line, by its kind and the hint it was
\* opened with.
DeclaredMultiline(e) ==
    CASE IsSeq(e) -> e.hint = None \/ HintOf(e) > 1
      [] IsTuple(e) -> HintOf(e) = MULTILINE
      [] IsMap(e) -> e.hint = None \/ HintOf(e) > 0
      [] IsKeywordCall(e) -> HintOf(e) >= 1
      [] IsPositionalCall(e) -> HintOf(e) > 1

\* C13: whether a container is written on one line or on several is settled
\* by the hint it is opened with and stays as settled whatever the number of
\* elements written to it: with elements it is on several lines iff its hint
\* says so, and on one line otherwise; without elements it is its two
\* delimiters.  So a struct declared with 0 fields and given one is
\* name(key = value), and a sequence declared with 1 element and given
\* three is [a, b, c].
C13_LayoutByHint ==
    \A i \in 1..Len(done) :
        IsContainer(done[i]) =>
            /\ done[i].multiline0 = DeclaredMultiline(done[i])
            /\ done[i].multiline = done[i].multiline0
            /\ IF DeclaredMultiline(done[i]) /\ Len(done[i].elems) > 0
               THEN OnSeveralLines(done[i])
               ELSE OnOneLine(done[i])

\* A sequence declared with one element has been written with three, the
\* first of them a struct declared with no field and written with one.
C13_Witness ==
    \E i, j \in 1..Len(done) :
        /\ IsKeywordCall(done[i]) /\ done[i].hint = 0 /\ Len(done[i].elems) = 1
        /\ IsSeq(done[j]) /\ done[j].hint = Some(1) /\ Len(done[j].elems) = 3
        /\ done[j].elems[1].from = done[i].from

\* The assignments the Serializer wrote in full: the tuple struct "=" of
\* impl Serialize for Assignment.
IsAssignment(e) ==
    e.what = "Assignment" /\ e.kind = "WriteTupleStruct" /\ e.name = <<Ch.eq>>

\* The value written from position `from` on as the last part of e.
ValueOf(e, from) ==
    done[CHOOSE j \in 1..Len(done) :
             done[j].from = from /\ done[j].to = e.to /\ done[j] # e]

\* C14: an assignment is its identifier as it is, " = ", and the text of its
\* value, which was written by the Serializer at the indent the assignment
\* was opened at; the assignment ends where its value ends and leaves the
\* indent as it was.
C14_Assignment ==
    \A i \in 1..Len(done) :
        IsAssignment(done[i]) =>
            LET e == done[i]
            IN /\ Len(e.elems) = 2
               /\ e.elems[1].from = e.from
               /\ e.elems[1].str = NameX
               /\ Slice(output, e.elems[1].from, e.elems[1].to) = e.elems[1].str \o EqSign
               /\ e.elems[2].from = e.elems[1].to + 1
               /\ e.elems[2].to = e.to
               /\ TextOf(e) = e.elems[1].str \o EqSign
                               \o TextOf(ValueOf(e, e.elems[2].from))
               /\ ValueOf(e, e.elems[2].from).open_indent = e.open_indent
               /\ e.end_indent = e.open_indent
               /\ ~e.multiline

\* A sequence with an element on a line of its own has been assigned.
C14_Witness ==
    \E i, k \in 1..Len(done) :
        /\ IsAssignment(done[i])
        /\ IsSeq(done[k]) /\ done[k].multiline /\ Len(done[k].elems) > 0
        /\ done[i].elems[2].from = done[k].from

\* The bundles of arguments written in full through one FunctionCall: the
\* container "(" its FunctionCallSerializer opened, and the name of the call.
IsCallArgs(e) == e.kind \in {"WriteTupleStruct", "WriteStruct"} /\ Len(e.arg) = 1
Function(e) == e.arg[1]

\* C15: the arguments of FunctionCall(f, args) are written as the fields of a
\* struct or tuple struct declared under the name f are (C11): for a struct
\* of any name declared with n fields, as those of a struct f declared with
\* n; for a tuple struct of any name, a tuple or a sequence declared with n
\* elements, as those of a tuple struct f declared with n.  The name read
\* first is f, and the whole text is f, "(", the arguments and ")": the name
\* the arguments were declared under is no part of it.
C15_CallAsDeclared ==
    \A i \in 1..Len(done) :
        IsCallArgs(done[i]) =>
            LET e == done[i]
                head == Function(e) \o <<Ch.lparen>>
            IN /\ e.hint = IF e.what = "seq" THEN e.api_hint[1] ELSE e.api_hint
               /\ e.kind = "WriteStruct" <=> e.what = "struct"
               /\ e.kind = "WriteTupleStruct" <=> e.what \in {"seq", "tuple", "tuple_struct"}
               /\ TextOf(e) = CallText(e, head, 2,
                                       IF e.what = "struct" THEN e.hint >= 1 ELSE e.hint > 1)
               /\ e.elems[1].role \in {"rename", "struct_rename"}
               /\ e.elems[1].from = e.from
               /\ Slice(output, e.from, e.from + Len(head) - 1) = head

\* A tuple declared with two elements and written with two has been the
\* arguments of a call.
C15_Witness ==
    \E i \in 1..Len(done) :
        /\ IsCallArgs(done[i]) /\ done[i].what = "tuple"
        /\ done[i].hint = 2 /\ Len(done[i].elems) = 3

\* The maps written in full as the arguments of one FunctionCall.
IsCallMap(e) == e.what = "map" /\ Len(e.arg) = 1

\* C16: a map that is the arguments of FunctionCall(f, args) is written as
\* f, "(", its entries and ")", by the struct "(" and not by the map of the
\* Serializer.  An entry is its key as it is, " = " and its value, or its
\* value alone when its key is the empty string.  The entries are on lines
\* of their own, each followed by a comma, when the length of the map is
\* unknown or declared >= 1, and on one line separated by ", " when it is
\* declared 0.
C16_CallOverMap ==
    \A i \in 1..Len(done) :
        IsCallMap(done[i]) =>
            LET e == done[i]
                head == Function(e) \o <<Ch.lparen>>
            IN /\ e.kind = "WriteStruct" /\ e.name = <<Ch.lparen>>
               /\ e.hint = unwrap_or(e.api_hint, 2)
               /\ Len(e.elems) = 1 + 2 * e.len
               /\ \A k \in 1..e.len :
                      /\ e.elems[2 * k].role = "*key"
                      /\ Slice(output, e.elems[2 * k].from, e.elems[2 * k].to) =
                             IF e.elems[2 * k].str = <<>> THEN <<>>
                             ELSE e.elems[2 * k].str \o EqSign
                      /\ e.elems[2 * k + 1].key = StarValue
                      /\ e.elems[2 * k + 1].from = e.elems[2 * k].to + 1
               /\ TextOf(e) = CallText(e, head, 2,
                                       e.api_hint = None \/ e.api_hint[1] >= 1)

\* A map of unknown length with two entries, the key of one of them empty,
\* has been the arguments of a call.
C16_Witness ==
    \E i \in 1..Len(done) :
        /\ IsCallMap(done[i]) /\ done[i].api_hint = None /\ done[i].len = 2
        /\ \E k \in 1..2 : done[i].elems[2 * k].str = <<>>
        /\ \E k \in 1..2 : done[i].elems[2 * k].str = NameK

\* The line comments the Serializer wrote in full: the tuple struct "#" of
\* impl Serialize for LineComment, its comment and where its value begins.
IsLineComment(e) ==
    e.what = "LineComment" /\ e.kind = "WriteTupleStruct" /\ e.name = <<Ch.hash>>
Comment(e) == e.elems[1].str
ValueFrom(e) == e.elems[2].from

\* The first line break of the text at or after pos, 0 if there is none.
RECURSIVE LineBreakAfter(_)
LineBreakAfter(pos) ==
    IF pos > Len(output) THEN 0
    ELSE IF output[pos] = Ch.nl THEN pos ELSE LineBreakAfter(pos + 1)

\* The line that ends at the line break p ends with "  # " and the comment of e.
EndsLine(e, p) ==
    LET trailer == CommentLead \o Comment(e)
    IN /\ p > Len(trailer)
       /\ Slice(output, p - Len(trailer), p - 1) = trailer

\* C17 as stated: once the text is whole, the comment of every LineComment
\* stands after the whole text of its value, at the end of the line on which
\* that text ends.
C17_CommentAfterValue ==
    result.tag = "Ok" =>
        \A i \in 1..Len(done) :
            IsLineComment(done[i]) => EndsLine(done[i], LineBreakAfter(done[i].to + 1))

\* Another LineComment took the place of the comment of done[i] before the
\* line ended at p: one inside its value, or one further on the line.
Superseded(i, p) ==
    \E j \in 1..Len(done) :
        /\ IsLineComment(done[j]) /\ j # i /\ done[j].from < p
        /\ \/ j < i /\ done[j].from >= ValueFrom(done[i])
           \/ done[j].from > done[i].to

\* C17: LineComment(v, c) writes nothing of its own before or after the text
\* of v, and c is written, after "  # ", at the end of the line on which the
\* text of v begins, unless another LineComment on that line takes its place
\* first.  For a v of one line that is the line on which the text of v ends;
\* for a v of several lines the comment stands inside the text of v, at the
\* end of its first line.
C17_LineComment ==
    \A i \in 1..Len(done) :
        IsLineComment(done[i]) =>
            LET e == done[i]
                p == LineBreakAfter(ValueFrom(e))
            IN /\ Len(e.elems) = 2
               /\ ValueFrom(e) = e.from /\ e.elems[2].to = e.to
               /\ e.elems[1].to < e.elems[1].from
               /\ (result.tag = "Ok" /\ ~Superseded(i, p)) => EndsLine(e, p)

\* The text is whole; a sequence of several lines has been written under a
\* comment, its element a value of one line under another comment.
C17_Witness ==
    /\ result.tag = "Ok"
    /\ \E i, j \in 1..Len(done) :
           /\ IsLineComment(done[i]) /\ IsLineComment(done[j])
           /\ Comment(done[i]) = NameC /\ Comment(done[j]) = NameE
           /\ LineBreakAfter(ValueFrom(done[i])) < done[i].to
           /\ LineBreakAfter(ValueFrom(done[j])) > done[j].to
           /\ ValueFrom(done[j]) > ValueFrom(done[i]) /\ done[j].to < done[i].to

\* A comment that neither starts with "#" nor holds a line break.
ValidComment(c) ==
    /\ c = <<>> \/ c[1] # Ch.hash
    /\ \A k \in 1..Len(c) : c[k] # Ch.nl

\* The comments read by the LineComments under way and by those written.
CommentsRead ==
    { stack[k].elems[1].str :
          k \in {n \in 1..Len(stack) : /\ stack[n].line_comment
                                        /\ stack[n].api = "LineComment"
                                        /\ stack[n].elems # <<>>} }
    \cup { Comment(done[i]) : i \in {n \in 1..Len(done) : IsLineComment(done[n])} }

\* No LineComment holds a comment that starts with "#" or holds a line
\* break, none is pending in the writer, and where LineComment::new was
\* given one, a panic and no Err is the outcome.
C18_NoInvalidComment ==
    /\ \A c \in CommentsRead : ValidComment(c)
    /\ line_comment # None => ValidComment(line_comment[1])
    /\ call.what = "LineComment::new" =>
           ~ValidComment(call.arg) /\ result.tag = "Panic" /\ result.text = <<>>
    /\ result.tag = "Err" => call.what # "LineComment::new"

\* The step in which LineComment::new is given such a comment serializes
\* nothing: no text, no pending comment, no container.
C18_NothingSerialized ==
    call'.what = "LineComment::new" =>
        output' = output /\ line_comment' = line_comment /\ stack' = stack

\* C18: LineComment::new panics on a comment that starts with "#" or holds a
\* line break, and returns no Err; so no LineComment that is serialized
\* holds such a comment, and no comment the writer holds or has written for
\* a LineComment has a line break in it.
C18_InvalidComment == [](C18_NoInvalidComment) /\ [][C18_NothingSerialized]_vars

\* LineComment::new has been given a comment with a line break, for an
\* element of a sequence that already has an element under a comment.
C18_Witness ==
    /\ call.what = "LineComment::new" /\ call.arg = NameC \o <<Ch.nl>>
    /\ result.tag = "Panic"
    /\ \E i \in 1..Len(done) : IsLineComment(done[i])
    /\ stack # <<>>

\* Nothing is written, opened, closed or noted in the step in which a method
\* returns Err: the text, the indent, the pending comment and every frame
\* are as they were.
C19_NothingAfterErr ==
    result'.tag = "Err" =>
        /\ output' = output /\ indent' = indent /\ line_comment' = line_comment
        /\ stack' = stack /\ done' = done
        /\ result.tag = "none"

\* to_string returns the Err of the method that failed, and no text.
C19_FirstErr ==
    result.tag = "Err" =>
        /\ result.text = <<>>
        /\ result.error.kind # ""
        /\ call.what # ""

\* C19: when a value fails, the methods of the containers around it return
\* its Err without writing a separator, a comma or a delimiter, and
\* to_string returns that Err and no text.
C19_ShortCircuit == [](C19_FirstErr) /\ [][C19_NothingAfterErr]_vars

\* The value of a field of a multi-line struct has failed, the struct being
\* an element of a multi-line sequence.
C19_Witness ==
    /\ result.tag = "Err"
    /\ Len(stack) = 2
    /\ stack[1].kind = "WriteSeq" /\ stack[1].multiline /\ stack[1].pending = "element"
    /\ stack[2].kind = "WriteStruct" /\ stack[2].multiline /\ stack[2].pending = "field"

\* The method called in this step was called on a BareStringSerializer.
OnBareString == call'.what # "" /\ call'.on.ser = "BareStringSerializer" /\ call'.on.calls = <<>>

\* The string a value gives where one is read bare: a string itself, or the
\* name of the variant of a unit variant.
BareStringOf(c) == IF c.what = "str" THEN c.arg ELSE c.arg[2]

\* A string or a unit variant where a string is read bare: the closure of the
\* place runs on it, and the container goes on.
C20_Accepted ==
    (OnBareString /\ call'.what \in {"str", "unit_variant"}) =>
        /\ result'.tag = "none"
        /\ Len(stack') = Len(stack)
        /\ Top([stack |-> stack']).elems # <<>>
        /\ LET read == Top([stack |-> stack']).elems[Len(Top([stack |-> stack']).elems)]
           IN /\ read.str = BareStringOf(call')
              /\ read.role = call'.on.closure

\* A value of any other shape where a string is read bare: the Err is
\* UnsupportedCall and the closure of the place does not run: no text, no
\* pending comment, and the container as it was.
C20_Rejected ==
    (OnBareString /\ call'.what \notin {"str", "unit_variant"}) =>
        /\ result'.tag = "Err" /\ result'.error.kind = "UnsupportedCall"
        /\ output' = output /\ line_comment' = line_comment
        /\ stack' = stack /\ done' = done

\* C20: where an identifier, the name of a call, a comment or a key is read
\* as a bare string, a string and a unit variant are accepted, and a value
\* of every other shape fails with UnsupportedCall without anything being
\* written or stored.
C20_BareStringOnly == [][C20_Accepted /\ C20_Rejected]_vars

\* A sequence has been given where the key of an argument is read, after the
\* name of the call was written.
C20_Witness ==
    /\ call.what = "seq" /\ call.on = BareString("*key")
    /\ result.tag = "Err"
    /\ output # <<>>

-----------------------------------------------------------------------------
(* Indentation *)

\* The container f has written a first element on a line of its own, and so
\* has called indent().
Indented(f) == f.multiline /\ f.len # 0 /\ ~f.assignment /\ ~f.line_comment

\* C21: the indent is a non-negative multiple of 4 and unindent() is never
\* called at indent 0 (the subtraction never overflows); the indent is 4 for
\* every open container that has written a first element on a line of its
\* own, and every container that has ended has left the indent as it was when
\* it was opened: each unindent() of an end() undoes the one indent() of the
\* first element of the same container.  This holds for every kind of
\* container, and for the positional call whose first field is "+", which
\* was opened multi-line and never indents.
C21_IndentBalanced ==
    /\ indent >= 0 /\ indent % 4 = 0
    /\ ~(result.tag = "Panic" /\ result.error.kind = "attempt to subtract with overflow")
    /\ indent = 4 * Cardinality({k \in 1..Len(stack) : Indented(stack[k])})
    /\ \A i \in 1..Len(done) : done[i].end_indent = done[i].open_indent

\* A call of "+" over two fields, opened multi-line, has ended after both
\* while a multi-line container around it is open.
C21_Witness ==
    /\ indent = 4
    /\ \E i \in 1..Len(done) :
           /\ done[i].plus /\ done[i].multiline0 /\ ~done[i].multiline
           /\ done[i].len = 2 /\ done[i].open_indent = 4

\* The container e has ended with elements on lines of their own.
OnLines(e) ==
    /\ e.kind # "" /\ e.multiline /\ e.len >= 1
    /\ ~(e.kind = "WriteTupleStruct" /\ e.name \in {<<Ch.eq>>, <<Ch.hash>>})

\* The line on which position pos stands begins after the position `after`
\* and starts with exactly n spaces.
LineStarts(pos, after, n) ==
    /\ LineBreakBefore(pos) > after
    /\ SpacesFrom(LineBreakBefore(pos) + 1, pos + 1) = n

\* C22: a container that has ended (a sequence, a tuple, a map, a call of
\* either form, an assignment, a line comment, a concatenation) has left the
\* indent as it was when it was opened; if it ended with elements on lines of
\* their own, the line of every element starts with exactly 4 spaces more
\* than the indent it was opened at, and its closing delimiter is alone on a
\* line after exactly as many spaces as the indent it was opened at.
C22_IndentRestored ==
    \A i \in 1..Len(done) :
        LET e == done[i] IN
        e.kind # "" =>
            /\ e.end_indent = e.open_indent
            /\ OnLines(e) =>
                   /\ \A k \in 1..Len(e.elems) :
                          e.elems[k].role \notin {"rename", "struct_rename"} =>
                              LineStarts(e.elems[k].from, e.from, e.open_indent + 4)
                   /\ output[e.to] \in {Ch.rbracket, Ch.rparen, Ch.rbrace}
                   /\ LineBreakBefore(e.to) = e.to - 1 - e.open_indent
                   /\ LineBreakBefore(e.to) > e.elems[Len(e.elems)].to
                   /\ SpacesFrom(LineBreakBefore(e.to) + 1, e.to) = e.open_indent

\* A map of unknown length with one entry has ended inside a multi-line
\* container that is still open.
C22_Witness ==
    /\ indent = 4
    /\ \E i \in 1..Len(done) :
           /\ done[i].kind = "WriteMap" /\ OnLines(done[i])
           /\ Len(done[i].elems) = 2 /\ done[i].open_indent = 4

-----------------------------------------------------------------------------
(* The pending comment *)

\* The LineComments that have read their comment: those under way and those
\* written, each with the place in the text at which it began.
CommentReads ==
    { [from |-> stack[k].from, str |-> stack[k].elems[1].str, ended |-> FALSE, to |-> 0] :
          k \in {n \in 1..Len(stack) : stack[n].line_comment /\ stack[n].elems # <<>>} }
    \cup { [from |-> done[i].from, str |-> Comment(done[i]), ended |-> TRUE,
            to |-> done[i].to] :
              i \in {n \in 1..Len(done) : IsLineComment(done[n])} }

\* C23 as stated: a comment is pending only after the value it belongs to
\* has been written in full and before the next line break.
C23_PendingAfterValue ==
    line_comment # None =>
        \E r \in CommentReads :
            /\ r.ended /\ r.str = line_comment[1]
            /\ LineBreakAfter(r.to + 1) = 0

\* A comment is pending only since a LineComment read it, no line break
\* having been written since; and from the moment a LineComment has read
\* its comment, before its value is written, a comment is pending until the
\* next line break.
C23_PendingSinceRead ==
    /\ line_comment # None =>
           \E r \in CommentReads :
               r.str = line_comment[1] /\ LineBreakAfter(r.from) = 0
    /\ \A r \in CommentReads : LineBreakAfter(r.from) = 0 => line_comment # None

\* The text written in a step.
Added == SubSeq(output', Len(output) + 1, Len(output'))

\* The first line break written while a comment is pending stands after
\* "  # " and the comment, and the comment is pending no more; a comment
\* stops being pending by a line break only, and becomes pending only where
\* a LineComment reads its first field, its value not yet begun and nothing
\* written.
C23_FlushedByNewline ==
    LET breaks == {k \in 1..Len(Added) : Added[k] = Ch.nl}
    IN /\ (line_comment # None /\ breaks # {}) =>
              LET k == CHOOSE b \in breaks : \A c \in breaks : b <= c
                  trailer == CommentLead \o line_comment[1]
              IN /\ k > Len(trailer)
                 /\ SubSeq(Added, k - Len(trailer), k - 1) = trailer
                 /\ line_comment' = None
       /\ (line_comment # None /\ line_comment' = None) => breaks # {}
       /\ (line_comment' # None /\ line_comment' # line_comment) =>
              LET f == stack'[Len(stack')]
              IN /\ Len(stack') = Len(stack) + 1
                 /\ f.line_comment /\ f.pending = "line_comment"
                 /\ Len(f.elems) = 1 /\ line_comment' = Some(f.elems[1].str)
                 /\ Added = <<>>

\* C23: the comment of a LineComment becomes pending when its first field is
\* read, before the value is written, and is pending while the value is
\* written up to the next line break; that line break, which may be one of
\* the value itself, is written after "  # " and the comment, and clears the
\* pending comment.
C23_PendingComment == [](C23_PendingSinceRead) /\ [][C23_FlushedByNewline]_vars

\* A comment is pending while the value it belongs to, a sequence, is open
\* with its "[" written and no line break after it.
C23_Witness ==
    /\ line_comment = Some(NameC)
    /\ Len(stack) = 2
    /\ stack[1].line_comment /\ stack[1].pending = "line_comment" /\ Len(stack[1].elems) = 1
    /\ stack[2].kind = "WriteSeq" /\ stack[2].from = stack[1].from
    /\ Len(output) >= stack[2].from /\ LineBreakAfter(stack[1].from) = 0

-----------------------------------------------------------------------------
(* The layout flag *)

\* C24 as stated: every container, open or ended, has the multi-line flag it
\* was opened with.
C24_LayoutImmutable ==
    /\ \A k \in 1..Len(stack) : stack[k].multiline = stack[k].multiline0
    /\ \A i \in 1..Len(done) : done[i].multiline = done[i].multiline0

\* The flag of f differs from the one it was opened with only in a
\* positional call opened multi-line whose name was read as "+", and there
\* it is false.
SwitchedByPlus(f) ==
    /\ f.kind = "WriteTupleStruct" /\ f.name = <<Ch.lparen>>
    /\ f.plus /\ f.multiline0 /\ ~f.multiline
    /\ f.elems # <<>> /\ f.elems[1].role = "rename" /\ f.elems[1].str = <<Ch.plus>>

C24_FlagAsOpened ==
    /\ \A k \in 1..Len(stack) :
           /\ stack[k].multiline # stack[k].multiline0 => SwitchedByPlus(stack[k])
           /\ stack[k].plus => ~stack[k].multiline
    /\ \A i \in 1..Len(done) :
           /\ done[i].multiline # done[i].multiline0 => SwitchedByPlus(done[i])
           /\ done[i].plus => ~done[i].multiline

\* In a step the flag of a container that stays open changes only while its
\* name is read, before any of its elements: from then on, at every field
\* and at end(), it is what it was.
C24_FlagChange ==
    \A k \in 1..Len(stack) :
        (k <= Len(stack') /\ stack'[k].multiline # stack[k].multiline) =>
            /\ stack[k].rename /\ stack[k].len = 0 /\ stack[k].elems = <<>>
            /\ SwitchedByPlus(stack'[k]) /\ ~stack'[k].rename

\* C24: the multi-line flag of a container is the one it was opened with at
\* every field and at end(), but for a positional call (a tuple struct
\* opened under the name "(") opened multi-line whose first field, its name,
\* is the string "+": reading that name sets the flag to false, before any
\* element is written, and it stays false.
C24_LayoutDecision == [](C24_FlagAsOpened) /\ [][C24_FlagChange]_vars

\* A tuple struct opened under "(" with two fields declared has read "+" as
\* its name in a step of its own and has written an element since.
C24_Witness ==
    \E k \in 1..Len(stack) :
        /\ SwitchedByPlus(stack[k]) /\ stack[k].api = "tuple_struct"
        /\ stack[k].via = <<>> /\ stack[k].len = 1 /\ Len(stack[k].elems) = 2

-----------------------------------------------------------------------------
(* Concatenation *)

\* The positional calls that have ended and whose name was read as "+".
IsConcatenation(e) ==
    /\ e.kind = "WriteTupleStruct" /\ e.name = <<Ch.lparen>>
    /\ e.elems # <<>> /\ e.elems[1].role = "rename" /\ e.elems[1].str = <<Ch.plus>>

\* C25: a positional call whose name is the string "+" (FunctionCall("+", ..)
\* over a sequence, a tuple or a tuple struct, or a tuple struct opened under
\* "(" whose first field is "+") writes nothing for the name and its other
\* fields in order with " + " between two of them, and nothing else: no
\* name, parenthesis, comma or line break; the indent is the same before it,
\* for each of its fields and after it.  This holds under every declared
\* length, MULTILINE and the unknown one among them.
C25_Concatenation ==
    \A i \in 1..Len(done) :
        LET e == done[i] IN
        IsConcatenation(e) =>
            /\ e.plus /\ ~e.multiline
            /\ e.elems[1].to < e.elems[1].from
            /\ e.len = Len(e.elems) - 1
            /\ TextOf(e) = Items(e, 2, <<>>, <<>>, PlusJoin)
            /\ e.end_indent = e.open_indent
            /\ \A j \in 1..Len(done) :
                   (\E k \in 2..Len(e.elems) : /\ done[j].from = e.elems[k].from
                                                /\ done[j].to = e.elems[k].to
                                                /\ done[j].depth = e.depth + 1)
                       => done[j].open_indent = e.open_indent

\* "+" has been called over a tuple declared MULTILINE, with two elements.
C25_Witness ==
    \E i \in 1..Len(done) :
        /\ IsConcatenation(done[i]) /\ done[i].what = "tuple"
        /\ done[i].api_hint = MULTILINE /\ done[i].multiline0
        /\ Len(done[i].elems) = 3

-----------------------------------------------------------------------------
(* Containers without elements *)

\* The calls written for FunctionCall(f, ..): the name was read as a field.
IsFunctionCall(e) ==
    /\ e.kind \in {"WriteTupleStruct", "WriteStruct"} /\ e.name = <<Ch.lparen>>
    /\ e.elems # <<>> /\ e.elems[1].role \in {"rename", "struct_rename"}
    /\ e.elems[1].str # <<Ch.plus>>

\* The containers that have a delimiter on either side.
IsDelimited(e) == IsContainer(e) \/ IsFunctionCall(e)

\* The number of elements written to e, the name of a call apart.
Elements(e) == Len(e.elems) - (IF IsFunctionCall(e) THEN 1 ELSE 0)

Opening(e) ==
    CASE e.kind = "WriteSeq" -> <<Ch.lbracket>>
      [] e.kind = "WriteMap" -> <<Ch.lbrace>>
      [] e.kind = "WriteTuple" -> <<Ch.lparen>>
      [] IsFunctionCall(e) -> e.elems[1].str \o <<Ch.lparen>>
      [] OTHER -> e.name \o <<Ch.lparen>>

Closing(e) ==
    CASE e.kind = "WriteSeq" -> <<Ch.rbracket>>
      [] e.kind = "WriteMap" -> <<Ch.rbrace>>
      [] OTHER -> <<Ch.rparen>>

\* The closing delimiter of e is the first thing on its line.
SteppedBack(e) ==
    /\ LineBreakBefore(e.to) > e.from
    /\ SpacesFrom(LineBreakBefore(e.to) + 1, e.to) = e.to - 1 - LineBreakBefore(e.to)

\* C26: a container to which no element was written is its opening
\* delimiter and its closing one with nothing between them ("[]", "{}",
\* "()", "name()"), under every declared length, MULTILINE and the unknown
\* one among them, and the indent is never changed for it; the closing
\* delimiter of a container stands on a line of its own, after unindent(),
\* exactly when the container is multi-line and an element was written.
C26_EmptyContainer ==
    /\ \A i \in 1..Len(done) :
           LET e == done[i] IN
           IsDelimited(e) =>
               /\ Elements(e) = 0 =>
                      /\ TextOf(e) = Opening(e) \o Closing(e)
                      /\ e.len = 0 /\ e.end_indent = e.open_indent
               /\ SteppedBack(e) = (e.multiline /\ Elements(e) >= 1)
    /\ (stack # <<>> /\ stack[Len(stack)].elems = <<>> /\ stack[Len(stack)].pending = "")
           => indent = stack[Len(stack)].open_indent

\* Inside a multi-line container that is still open, the call of a function
\* over a sequence of unknown length, opened multi-line, has ended without
\* elements.
C26_Witness ==
    /\ indent = 4
    /\ \E i \in 1..Len(done) :
           /\ IsDelimited(done[i]) /\ Elements(done[i]) = 0
           /\ done[i].multiline0 /\ done[i].open_indent = 4
           /\ IsFunctionCall(done[i]) /\ done[i].what = "seq" /\ done[i].api_hint = None

-----------------------------------------------------------------------------
(* Every comment once *)

\* The places of the text at which "  # " stands.
CommentLeads == {p \in 1..Len(output) - 3 : SubSeq(output, p, p + 3) = CommentLead}

\* The LineComments that have been written.
LineComments == {i \in 1..Len(done) : IsLineComment(done[i])}

\* C27: once the text is whole, every comment read by a LineComment stands
\* in it, after "  # ", at the end of a line, and the text holds as many
\* comments as LineComments were written: none is lost, none stands twice.
\* This is so also for a LineComment that is the value of a LineComment and
\* for two LineComments with no line break between them.
C27_EveryCommentOnce ==
    result.tag = "Ok" =>
        /\ \A i \in LineComments :
               \E p \in 1..Len(output) : output[p] = Ch.nl /\ EndsLine(done[i], p)
        /\ Cardinality(CommentLeads) = Cardinality(LineComments)

-----------------------------------------------------------------------------
(* Unknown lengths *)

\* The sequences and maps of unknown length written in full as the
\* arguments of one FunctionCall.
IsUnknownCall(e) ==
    /\ e.what \in {"seq", "map"} /\ Len(e.arg) = 1 /\ e.api_hint = None
    /\ e.kind \in {"WriteTupleStruct", "WriteStruct"}

\* C28: a sequence opened without a length is multi-line: "[]" without
\* elements, and with elements, be it one only, each on a line of its own
\* followed by a comma.  FunctionCall(f, args) over a sequence or a map
\* opened without a length opens the call with the length 2: the call is
\* "f()" without arguments and with arguments, be it one only, each on a
\* line of its own followed by a comma.
C28_UnknownLength ==
    \A i \in 1..Len(done) :
        LET e == done[i] IN
        /\ (IsSeq(e) /\ e.hint = None) =>
               /\ e.multiline0 /\ e.multiline
               /\ TextOf(e) = IF e.elems = <<>> THEN <<Ch.lbracket, Ch.rbracket>>
                               ELSE MultiLine(e, <<Ch.lbracket>>, <<Ch.rbracket>>)
        /\ IsUnknownCall(e) =>
               /\ e.hint = 2 /\ e.name = <<Ch.lparen>>
               /\ e.multiline0 /\ e.multiline
               /\ e.what = "seq" <=> e.kind = "WriteTupleStruct"
               /\ TextOf(e) = IF Len(e.elems) = 1
                               THEN Function(e) \o <<Ch.lparen, Ch.rparen>>
                               ELSE MultiLineCall(e, Function(e) \o <<Ch.lparen>>, 2)

\* A function has been called over a map of unknown length with one entry,
\* whose value is a sequence of unknown length with one element.
C28_Witness ==
    \E i, j \in 1..Len(done) :
        /\ IsSeq(done[i]) /\ done[i].hint = None /\ Len(done[i].elems) = 1
        /\ IsUnknownCall(done[j]) /\ done[j].what = "map" /\ Len(done[j].elems) = 3
        /\ done[j].elems[3].from = done[i].from /\ done[j].elems[3].to = done[i].to

-----------------------------------------------------------------------------
(* The assertions of the two-field forms *)

AssertionFailed ==
    result.tag # "none" /\ result.error.kind = "assertion failed: self.len == 1"

\* The tuple structs in which serialize_field asserts self.len == 1.
TwoFieldForm(f) == f.kind = "WriteTupleStruct" /\ (f.assignment \/ f.line_comment)

\* No Assignment and no LineComment is ever given a third field: each hands
\* its two fields and ends.  Where the assertion has failed, the outcome is
\* a panic and no Err, and a tuple struct opened under "=" or "#" by a
\* value of its own had two fields.
C29_AssertionsOfWrappers ==
    /\ \A k \in 1..Len(stack) :
           stack[k].api \in {"Assignment", "LineComment"} =>
               /\ TwoFieldForm(stack[k]) /\ stack[k].auto_end
               /\ stack[k].len = 2 /\ stack[k].pending # ""
               /\ ~(AssertionFailed /\ k = Len(stack))
    /\ \A i \in 1..Len(done) :
           (IsAssignment(done[i]) \/ IsLineComment(done[i])) =>
               done[i].len = 2 /\ Len(done[i].elems) = 2
    /\ AssertionFailed =>
           /\ result.tag = "Panic"
           /\ stack # <<>> /\ TwoFieldForm(stack[Len(stack)])
           /\ stack[Len(stack)].api = "tuple_struct" /\ stack[Len(stack)].len = 2

\* A field written to a tuple struct opened under "=" or "#" panics on the
\* assertion exactly when it is the third.
C29_ThirdField ==
    (/\ ContainerTurn /\ TwoFieldForm(stack[Len(stack)])
     /\ Len(stack') >= Len(stack) /\ vars' # vars) =>
        /\ (result'.tag = "Panic") = (stack[Len(stack)].len >= 2)
        /\ result'.tag = "Panic" =>
               result'.error.kind = "assertion failed: self.len == 1"
        /\ result'.tag # "Err"

\* C29: the assertions self.len == 1 of the assignment and line-comment
\* forms hold wherever an Assignment or a LineComment is encoded, each
\* writing exactly two fields; they fail, with a panic and not with an Err,
\* exactly when a third field is written to a tuple struct opened under the
\* name "=" or "#".
C29_Assertions == [](C29_AssertionsOfWrappers) /\ [][C29_ThirdField]_vars

\* A third field has been written to a tuple struct opened under "#" as the
\* value of an Assignment.
C29_Witness ==
    /\ AssertionFailed /\ result.tag = "Panic"
    /\ Len(stack) = 2
    /\ stack[1].api = "Assignment" /\ stack[2].line_comment /\ stack[2].len = 2
    /\ Len(stack[2].elems) = 2

-----------------------------------------------------------------------------
(* The arguments of a function call *)

\* The methods by which the arguments of a FunctionCall may describe
\* themselves.
ArgumentShapes == {"seq", "tuple", "tuple_struct", "map", "struct"}

\* The last method was called on the FunctionCallSerializer of a FunctionCall.
OnFunctionCall == call.what # "" /\ call.on.calls # <<>>

UnsupportedArgument ==
    /\ result.tag = "Err"
    /\ result.error.kind = "Message" /\ result.error.detail = UNSUPPORTED

\* The arguments of a FunctionCall that describe themselves by any method
\* but those of the five containers fail with the message "unsupported
\* function call argument type", and nothing else fails with it; to_string
\* returns no text.
C30_OnlyContainers ==
    /\ (OnFunctionCall /\ call.what \notin ArgumentShapes) => UnsupportedArgument
    /\ UnsupportedArgument =>
           /\ OnFunctionCall /\ call.what \notin ArgumentShapes
           /\ result.text = <<>>
    /\ (OnFunctionCall /\ call.what \in ArgumentShapes /\ call.on.ser = TheSerializer.ser)
           => result.tag # "Err"

\* The step in which the arguments fail writes nothing, the name of the
\* function included, and opens no container.
C30_NameNotWritten ==
    (/\ result'.tag = "Err" /\ result'.error.kind = "Message"
     /\ result'.error.detail = UNSUPPORTED) =>
        output' = output /\ stack' = stack /\ indent' = indent

\* C30: FunctionCall(f, args) takes as args a sequence, a tuple, a tuple
\* struct, a map or a struct only; for args of every other shape (a boolean,
\* an integer, a float, a character, a string, bytes, None, Some, unit, a
\* unit struct, a newtype struct, a variant of every kind) it fails with the
\* message "unsupported function call argument type", and f is not written.
C30_ArgumentShapes == [](C30_OnlyContainers) /\ [][C30_NameNotWritten]_vars

\* A function has been called over a variant without payload, as an element
\* of a sequence whose "[" is written.
C30_Witness ==
    /\ UnsupportedArgument
    /\ call.what = "unit_variant" /\ call.on.calls = <<NameF>>
    /\ output = <<Ch.lbracket>>
    /\ Len(stack) = 1 /\ stack[1].kind = "WriteSeq"

====
